---- MODULE Spec2Model ----
(***************************************************************************)
(* Story Annotator Pro: the App component's state (the story container,    *)
(* the selection, the edit mode, the modal flag), its handlers (file load, *)
(* sentence selection, save/update, delete, export) and the render pass of *)
(* StoryDisplay, as a state machine.                                       *)
(*                                                                         *)
(* Representation.  A JavaScript string that the code inspects character   *)
(* by character (comment text, the legacy "comment applies to sentences"   *)
(* field, String(value)) is a sequence of one-character strings; <<>> is   *)
(* the empty string.  An optional string field of a document entry is     *)
(* [present, s], so that a field left out and an empty one are told apart. *)
(* Opaque strings (sentence text, title, keys) are TLA+ strings.  A        *)
(* comment id, group id or timestamp is a natural number and 0 stands for  *)
(* every falsy value (undefined, "", 0): the code only ever tests these    *)
(* fields with || and if (...).  The sentence id `ch${c}-s${n}` is the     *)
(* pair <<c, n>> (the format is injective on pairs of numbers).  The Map   *)
(* of chapters is a sequence of [num, sentences] in insertion order, which *)
(* is the order Map.forEach / entries() / values() iterate in.             *)
(*                                                                         *)
(* Two specifications.  Spec follows the container through the handlers,   *)
(* taking the text of an annotation at the moment it is saved; the state   *)
(* of the AnnotationModal component stays at rest in it.  ModalSpec        *)
(* follows the modal itself: its draft text, the comment being edited, the *)
(* recording flag and the speech recognition session, over the same App    *)
(* handlers.                                                               *)
(***************************************************************************)
EXTENDS Integers, Sequences, FiniteSets, TLC

VARIABLES
    storyData,               \* Null or [title, chapters]
    originalCompleteStory,   \* Null or the document's "The Complete Story"
    selectedAnalysisItem,    \* Null or a sentence record (the modal's item)
    isModalOpen,
    error,                   \* "" (null) or the kind of the message shown
    editMode,                \* "single" | "mass" | "group"
    bulkSelectedSentenceIds, \* set of sentence ids
    clock,                   \* the last value Date.now() returned
    nextId,                  \* the number of the next id generateUniqueId() makes
    steps,                   \* container changes since a document was last loaded
    last,                    \* history: the last handler run, its inputs and pre-state
    imported,                \* history: the container as the last file load built it
    massCreated,             \* history: the ids the last mass add gave its comments
    newCommentText,          \* AnnotationModal: the draft in the text area
    editingCommentDetail,    \* AnnotationModal: Null or [id, groupId] being edited
    isRecording,             \* AnnotationModal: the recording flag
    speechError,             \* AnnotationModal: "" (null) or the kind of message
    recognition,             \* the SpeechRecognition object: "idle" | "listening" |
                             \* "stopping" (stop() called) | "ending" (end to come)
    modalLog                 \* history of the modal: events run, sessions, drafts

vars == <<storyData, originalCompleteStory, selectedAnalysisItem, isModalOpen,
          error, editMode, bulkSelectedSentenceIds, clock, nextId, steps, last,
          imported, massCreated, newCommentText, editingCommentDetail,
          isRecording, speechError, recognition, modalLog>>

modalVars == <<newCommentText, editingCommentDetail, isRecording, speechError,
               recognition, modalLog>>

Null == [null |-> TRUE]

\* Container changes explored after each file load; once they are used up the
\* session goes on with closing the modal, exporting and loading only.
MaxOps == 2

Max(a, b) == IF a >= b THEN a ELSE b

(***************************************************************************)
(* Strings                                                                 *)
(***************************************************************************)
DigitChars == <<"0", "1", "2", "3", "4", "5", "6", "7", "8", "9">>

IsDigit(c) == \E d \in 1..10 : DigitChars[d] = c

DigitVal(c) == (CHOOSE d \in 1..10 : DigitChars[d] = c) - 1

RECURSIVE TrimStart(_)
TrimStart(s) == IF s # <<>> /\ Head(s) = " " THEN TrimStart(Tail(s)) ELSE s

RECURSIVE TrimEnd(_)
TrimEnd(s) ==
    IF s # <<>> /\ s[Len(s)] = " " THEN TrimEnd(SubSeq(s, 1, Len(s) - 1)) ELSE s

\* String.prototype.trim
Trim(s) == TrimEnd(TrimStart(s))

RECURSIVE NatChars(_)
NatChars(n) ==
    IF n < 10 THEN <<DigitChars[n + 1]>>
    ELSE NatChars(n \div 10) \o <<DigitChars[(n % 10) + 1]>>

\* String(n) of an integer
NumberToString(n) == IF n < 0 THEN <<"-">> \o NatChars(0 - n) ELSE NatChars(n)

RECURSIVE DigitsPrefix(_, _, _)
DigitsPrefix(s, acc, seen) ==
    IF s # <<>> /\ IsDigit(Head(s))
    THEN DigitsPrefix(Tail(s), 10 * acc + DigitVal(Head(s)), TRUE)
    ELSE [nan |-> ~seen, v |-> acc]

\* parseInt(s, 10): leading white space, an optional sign, the longest prefix
\* of digits; NaN when there is no digit.
ParseInt(s) ==
    LET t == TrimStart(s)
        signed == t # <<>> /\ Head(t) \in {"-", "+"}
        neg == t # <<>> /\ Head(t) = "-"
        r == DigitsPrefix(IF signed THEN Tail(t) ELSE t, 0, FALSE)
    IN  [nan |-> r.nan, v |-> IF neg THEN 0 - r.v ELSE r.v]

RECURSIVE SplitAcc(_, _, _)
SplitAcc(s, cur, out) ==
    IF s = <<>> THEN Append(out, cur)
    ELSE IF Head(s) = "," THEN SplitAcc(Tail(s), <<>>, Append(out, cur))
    ELSE SplitAcc(Tail(s), Append(cur, Head(s)), out)

\* s.split(',')
Split(s) == SplitAcc(s, <<>>, <<>>)

RECURSIVE ParseTokens(_)
ParseTokens(toks) ==
    IF toks = <<>> THEN <<>>
    ELSE LET p == ParseInt(Trim(Head(toks)))
         IN  (IF p.nan THEN <<>> ELSE <<p.v>>) \o ParseTokens(Tail(toks))

\* rawAppliesTo.split(',').map(n => parseInt(n.trim(), 10)).filter(n => !isNaN(n))
ParseAppliesTo(raw) == ParseTokens(Split(raw))

RECURSIVE Join(_)
\* numbers.join(',')
Join(nums) ==
    IF nums = <<>> THEN <<>>
    ELSE IF Len(nums) = 1 THEN NumberToString(nums[1])
    ELSE NumberToString(nums[1]) \o <<",">> \o Join(Tail(nums))

(***************************************************************************)
(* Array.prototype.sort with a numeric comparator is stable: an insertion  *)
(* sort over <<key, value>> pairs, keys compared lexicographically.        *)
(***************************************************************************)
RECURSIVE KeyLess(_, _)
KeyLess(a, b) ==
    IF a = <<>> THEN FALSE
    ELSE IF Head(a) # Head(b) THEN Head(a) < Head(b)
    ELSE KeyLess(Tail(a), Tail(b))

RECURSIVE InsertStable(_, _)
InsertStable(sorted, p) ==
    IF sorted = <<>> THEN <<p>>
    ELSE IF KeyLess(p[1], Head(sorted)[1]) THEN <<p>> \o sorted
    ELSE <<Head(sorted)>> \o InsertStable(Tail(sorted), p)

RECURSIVE SortPairs(_, _)
SortPairs(pairs, acc) ==
    IF pairs = <<>> THEN acc
    ELSE SortPairs(Tail(pairs), InsertStable(acc, Head(pairs)))

StableSort(pairs) ==
    LET s == SortPairs(pairs, <<>>) IN [i \in 1..Len(s) |-> s[i][2]]

\* sentences.sort((a, b) => a["Sentence Number"] - b["Sentence Number"])
SortBySentenceNumber(ss) ==
    StableSort([i \in 1..Len(ss) |-> <<<<ss[i].SentenceNumber>>, ss[i]>>])

\* comments.sort((a, b) => b.timestamp - a.timestamp)
SortByTimestampDesc(cs) ==
    StableSort([i \in 1..Len(cs) |-> <<<<0 - cs[i].timestamp>>, cs[i]>>])

\* numbers.sort((a, b) => a - b)
SortNumbers(ns) == StableSort([i \in 1..Len(ns) |-> <<<<ns[i]>>, ns[i]>>])

(***************************************************************************)
(* The container                                                           *)
(***************************************************************************)
RECURSIVE Flatten(_)
\* Array.from(chapters.values()).flat(): every sentence, in iteration order
Flatten(chs) ==
    IF chs = <<>> THEN <<>> ELSE Head(chs).sentences \o Flatten(Tail(chs))

RECURSIVE Concat(_)
Concat(seqs) == IF seqs = <<>> THEN <<>> ELSE Head(seqs) \o Concat(Tail(seqs))

Range(s) == {s[i] : i \in 1..Len(s)}

\* every comment of the container, sentence by sentence
AllComments(chs) ==
    LET ss == Flatten(chs) IN Concat([i \in 1..Len(ss) |-> ss[i].comments])

SentenceId(chapterNum, sentenceNum) == <<chapterNum, sentenceNum>>

NoApplies == [some |-> FALSE, v |-> <<>>]

SomeApplies(ns) == [some |-> TRUE, v |-> ns]


(***************************************************************************)
(* Documents.  A parsed JSON document is                                   *)
(*   [Analysis |-> [kind, items], Story |-> [present, Title, Chapters]]    *)
(* where kind is "missing" (absent or falsy), "other" (truthy, not an      *)
(* array) or "array".  A raw entry carries its fields as JSON gave them: a *)
(* number field is [t |-> "number", v |-> n] or a value of another type.   *)
(***************************************************************************)
RawNum(n) == [t |-> "number", v |-> n, s |-> <<>>]

RawStr(chars) == [t |-> "string", v |-> 0, s |-> chars]

NoHistory == [present |-> FALSE, list |-> <<>>]

History(list) == [present |-> TRUE, list |-> list]

RawComment(id, text, type, timestamp, groupId, applies) ==
    [id |-> id, text |-> text, type |-> type, timestamp |-> timestamp,
     groupId |-> groupId, appliesToSentenceNumbers |-> applies]

\* an optional string field of an entry: left out, or given with its value
Absent == [present |-> FALSE, s |-> <<>>]

Given(chars) == [present |-> TRUE, s |-> chars]

\* if (field): a string field that is present and not empty
Truthy(field) == field.present /\ field.s # <<>>

\* an entry; comment and applies are the legacy fields, left out when empty
Entry(ch, num, text, comment, applies, history, props) ==
    [Sentence |-> text, ChapterNumber |-> ch, SentenceNumber |-> num,
     comment |-> IF comment = <<>> THEN Absent ELSE Given(comment),
     appliesTo |-> IF applies = <<>> THEN Absent ELSE Given(applies),
     all_comments |-> history,
     props |-> props]

Plain(ch, num, text) ==
    Entry(RawNum(ch), RawNum(num), text, <<>>, <<>>, NoHistory, <<>>)

Document(items, title) ==
    [Analysis |-> [kind |-> "array", items |-> items],
     Story |-> [present |-> TRUE, Title |-> title, Chapters |-> "chapters"]]

TextA == <<"a">>

TextB == <<"b">>

\* three sentences of one chapter and no annotation: the third entry has an
\* empty history beside a legacy comment
DocPlain ==
    Document(<<Plain(1, 1, "s1"), Plain(1, 2, "s2"),
               Entry(RawNum(1), RawNum(3), "s3", TextB, <<>>, History(<<>>), <<>>)>>,
             "T")

\* legacy comment fields (the applies-to field with an integer, a word and a
\* number followed by a letter), two chapters out of order, a sentence
\* numbered -1, an additional analysis field given as a number
DocLegacy ==
    Document(<<Entry(RawNum(2), RawNum(1), "p", TextA,
                     <<"1", ",", " ", "x", ",", "3", "y">>, NoHistory, <<>>),
               Entry(RawNum(1), RawNum(0 - 1), "r", TextB, <<>>, NoHistory,
                     [tone |-> RawNum(5)])>>, "T")

\* a full comment history as a previous export wrote it (one group over s1 and
\* s2, a single comment on s3), one comment lacking id and timestamp, the
\* entries out of order
DocFull ==
    Document(<<Entry(RawNum(1), RawNum(3), "s3", <<>>, <<>>,
                     History(<<RawComment(3, TextB, "single", 1, 0, NoApplies)>>),
                     <<>>),
               Entry(RawNum(1), RawNum(2), "s2", <<>>, <<>>,
                     History(<<RawComment(2, TextA, "group", 1, 9, SomeApplies(<<1, 2>>)),
                               RawComment(0, TextB, "single", 0, 0, NoApplies)>>),
                     <<>>),
               Entry(RawNum(1), RawNum(1), "s1", <<>>, <<>>,
                     History(<<RawComment(1, TextA, "group", 1, 9, SomeApplies(<<1, 2>>))>>),
                     <<>>)>>,
             "T")

\* a history in which two comments of one sentence carry the same id
DocDupIds ==
    Document(<<Entry(RawNum(1), RawNum(1), "s1", <<>>, <<>>,
                     History(<<RawComment(1, TextA, "single", 1, 0, NoApplies),
                               RawComment(1, TextA, "group", 1, 9, SomeApplies(<<1, 2>>))>>),
                     <<>>),
               Entry(RawNum(1), RawNum(2), "s2", <<>>, <<>>,
                     History(<<RawComment(2, TextA, "group", 1, 9, SomeApplies(<<1, 2>>))>>),
                     <<>>)>>, "T")

\* a hand-written history: kind and group id disagree, the instances of group
\* 9 differ, a text is empty, a timestamp lies after the import time; a third
\* sentence has no annotation
DocOdd ==
    Document(<<Entry(RawNum(1), RawNum(1), "s1", <<>>, <<>>,
                     History(<<RawComment(1, <<>>, "single", 3, 9, NoApplies)>>), <<>>),
               Entry(RawNum(1), RawNum(2), "s2", <<>>, <<>>,
                     History(<<RawComment(2, TextA, "group", 1, 0, SomeApplies(<<2>>)),
                               RawComment(3, TextB, "group", 0, 9, NoApplies)>>),
                     <<>>),
               Plain(1, 3, "s3")>>, "T")

\* a history with gaps: of the two instances of group 9 one has its timestamp
\* and the other has neither id nor timestamp, as has a single comment
DocGaps ==
    Document(<<Entry(RawNum(1), RawNum(1), "s1", <<>>, <<>>,
                     History(<<RawComment(1, TextA, "group", 1, 9, SomeApplies(<<1, 2>>))>>),
                     <<>>),
               Entry(RawNum(1), RawNum(2), "s2", <<>>, <<>>,
                     History(<<RawComment(0, TextA, "group", 0, 9, SomeApplies(<<1, 2>>)),
                               RawComment(0, TextB, "single", 0, 0, NoApplies)>>),
                     <<>>)>>, "T")

ValidDocs == {DocPlain, DocLegacy, DocFull, DocDupIds, DocOdd, DocGaps}

TwoEntries == <<Plain(1, 1, "s1"), Plain(1, 2, "s2")>>

BadSecond(e) == Document(<<Plain(1, 1, "s1"), e>>, "T")

\* documents the importer must refuse
InvalidDocs ==
    { [Document(TwoEntries, "T") EXCEPT !.Analysis.kind = "missing"],
      [Document(TwoEntries, "T") EXCEPT !.Analysis.kind = "other"],
      [Document(TwoEntries, "T") EXCEPT !.Story.present = FALSE],
      Document(TwoEntries, ""),
      BadSecond([Plain(1, 2, "s2") EXCEPT !.ChapterNumber = RawStr(<<"1">>)]),
      BadSecond([Plain(1, 2, "s2") EXCEPT !.SentenceNumber = RawStr(<<"2">>)]),
      BadSecond(Plain(1, 2, "")) }

Docs == ValidDocs \cup InvalidDocs

\* the values Date.now() may return when a file is loaded (document timestamps
\* lie before and after it)
ImportTimes == {2}

(***************************************************************************)
(* Story Importer                                                          *)
(***************************************************************************)
\* processFile's "Basic validation" of the parsed document
BasicValidation(doc) ==
    /\ doc.Analysis.kind # "missing"
    /\ doc.Story.present
    /\ doc.Story.Title # ""
    /\ doc.Analysis.kind = "array"

\* the k-th Date.now() of one file load: the clock may advance during the load
DateNowAt(now0, tick, k) == IF tick /\ k > 1 THEN now0 + 1 ELSE now0

RECURSIVE SeqMax(_)
SeqMax(ns) == IF ns = <<>> THEN 0 ELSE Max(Head(ns), SeqMax(Tail(ns)))

\* generateUniqueId() returns an id no comment carries: during a file load the
\* ids above every id of the document, in the order of the calls
FirstFreshId(items) ==
    1 + SeqMax(Concat([i \in 1..Len(items) |->
            Concat([j \in 1..Len(items[i].all_comments.list) |->
                <<items[i].all_comments.list[j].id,
                  items[i].all_comments.list[j].groupId>>])]))

RECURSIVE AdoptComments(_, _, _, _, _)
\* all_comments.map(c => ({id: c.id || generateUniqueId(), ...,
\*                         timestamp: c.timestamp || Date.now(), ...}))
AdoptComments(list, nid, calls, now0, tick) ==
    IF list = <<>> THEN [comments |-> <<>>, nid |-> nid, calls |-> calls]
    ELSE LET c == Head(list)
             nid1 == IF c.id = 0 THEN nid + 1 ELSE nid
             calls1 == IF c.timestamp = 0 THEN calls + 1 ELSE calls
             made == [id |-> IF c.id = 0 THEN nid ELSE c.id,
                      text |-> c.text,
                      type |-> c.type,
                      timestamp |-> IF c.timestamp = 0
                                    THEN DateNowAt(now0, tick, calls1)
                                    ELSE c.timestamp,
                      groupId |-> c.groupId,
                      appliesToSentenceNumbers |-> c.appliesToSentenceNumbers]
             rest == AdoptComments(Tail(list), nid1, calls1, now0, tick)
         IN  [comments |-> <<made>> \o rest.comments,
              nid |-> rest.nid, calls |-> rest.calls]

\* the comments of one raw entry: the full history when present, else one
\* comment synthesized from the legacy fields, else none
CurrentComments(raw, nid, calls, now0, tick) ==
    IF raw.all_comments.present
    THEN AdoptComments(raw.all_comments.list, nid, calls, now0, tick)
    ELSE IF Truthy(raw.comment)
    THEN LET isGroup == Truthy(raw.appliesTo)
         IN  [comments |->
                 <<[id |-> nid,
                    text |-> raw.comment.s,
                    type |-> IF isGroup THEN "group" ELSE "single",
                    timestamp |-> DateNowAt(now0, tick, calls + 1),
                    groupId |-> IF isGroup THEN nid + 1 ELSE 0,
                    appliesToSentenceNumbers |->
                        IF isGroup THEN SomeApplies(ParseAppliesTo(raw.appliesTo.s))
                        ELSE NoApplies]>>,
              nid |-> IF isGroup THEN nid + 2 ELSE nid + 1,
              calls |-> calls + 1]
    ELSE [comments |-> <<>>, nid |-> nid, calls |-> calls]

\* String(value) of an additional property
ToDisplayString(rv) == IF rv.t = "number" THEN NumberToString(rv.v) ELSE rv.s

ParsedAdditionalAnalysis(props) == [k \in DOMAIN props |-> ToDisplayString(props[k])]

\* newChaptersMap.get(chapterNum).push(item), the chapter created on first use
PushItem(chs, item) ==
    IF \E i \in 1..Len(chs) : chs[i].num = item.ChapterNumber
    THEN [i \in 1..Len(chs) |->
            IF chs[i].num = item.ChapterNumber
            THEN [chs[i] EXCEPT !.sentences = Append(@, item)]
            ELSE chs[i]]
    ELSE Append(chs, [num |-> item.ChapterNumber, sentences |-> <<item>>])

RECURSIVE ProcessEntriesSkipping(_, _, _, _, _, _)
\* a faulty variant of ProcessEntries: an invalid entry is skipped
ProcessEntriesSkipping(items, chs, nid, calls, now0, tick) ==
    IF items = <<>> THEN [ok |-> TRUE, chapters |-> chs, calls |-> calls, nid |-> nid]
    ELSE LET raw == Head(items) IN
         IF \/ raw.ChapterNumber.t # "number"
            \/ raw.SentenceNumber.t # "number"
            \/ raw.Sentence = ""
         THEN ProcessEntriesSkipping(Tail(items), chs, nid, calls, now0, tick)
         ELSE LET cc == CurrentComments(raw, nid, calls, now0, tick)
                  item == [id |-> SentenceId(raw.ChapterNumber.v, raw.SentenceNumber.v),
                           Sentence |-> raw.Sentence,
                           ChapterNumber |-> raw.ChapterNumber.v,
                           SentenceNumber |-> raw.SentenceNumber.v,
                           additionalAnalysis |-> ParsedAdditionalAnalysis(raw.props),
                           comments |-> cc.comments]
              IN  ProcessEntriesSkipping(Tail(items), PushItem(chs, item), cc.nid,
                                         cc.calls, now0, tick)

RECURSIVE ProcessEntries(_, _, _, _, _, _)
\* data.Analysis.forEach(rawItem => ...): the first invalid entry throws
ProcessEntries(items, chs, nid, calls, now0, tick) ==
    IF items = <<>> THEN [ok |-> TRUE, chapters |-> chs, calls |-> calls, nid |-> nid]
    ELSE LET raw == Head(items) IN
         IF \/ raw.ChapterNumber.t # "number"
            \/ raw.SentenceNumber.t # "number"
            \/ raw.Sentence = ""
         THEN [ok |-> FALSE, chapters |-> <<>>, calls |-> calls, nid |-> nid]
         ELSE LET cc == CurrentComments(raw, nid, calls, now0, tick)
                  item == [id |-> SentenceId(raw.ChapterNumber.v, raw.SentenceNumber.v),
                           Sentence |-> raw.Sentence,
                           ChapterNumber |-> raw.ChapterNumber.v,
                           SentenceNumber |-> raw.SentenceNumber.v,
                           additionalAnalysis |-> ParsedAdditionalAnalysis(raw.props),
                           comments |-> cc.comments]
              IN  ProcessEntries(Tail(items), PushItem(chs, item), cc.nid, cc.calls,
                                 now0, tick)

\* the try block of handleFileLoad: [ok |-> FALSE] when an entry throws
BuildStory(doc, now0, tick) ==
    LET r == ProcessEntries(doc.Analysis.items, <<>>, FirstFreshId(doc.Analysis.items),
                            0, now0, tick)
    IN  IF ~r.ok THEN [ok |-> FALSE, calls |-> r.calls, nid |-> r.nid]
        ELSE [ok |-> TRUE,
              calls |-> r.calls,
              nid |-> r.nid,
              story |-> [title |-> doc.Story.Title,
                         chapters |-> [i \in 1..Len(r.chapters) |->
                             [r.chapters[i] EXCEPT
                                 !.sentences = SortBySentenceNumber(@)]]]]

\* the outcome of loading each document, computed once
Built == [doc \in Docs, now0 \in ImportTimes, tick \in BOOLEAN |->
            BuildStory(doc, now0, tick)]

(***************************************************************************)
(* The render pass.  Whenever a story is shown, StoryDisplay calls         *)
(* getCommentSummary(item.comments) for every sentence that has comments,  *)
(* and that sorts the array it is given in place, newest first.  The array *)
(* is the container's own (and the selected item's, which shares it).      *)
(***************************************************************************)
getCommentSummary(comments) == SortByTimestampDesc(comments)

RenderItem(item) ==
    IF item = Null THEN Null
    ELSE [item EXCEPT !.comments = getCommentSummary(@)]

RenderChapters(chs) ==
    [i \in 1..Len(chs) |->
        [chs[i] EXCEPT !.sentences =
            [j \in 1..Len(chs[i].sentences) |-> RenderItem(chs[i].sentences[j])]]]

RenderStory(story) ==
    IF story = Null THEN Null
    ELSE [story EXCEPT !.chapters = RenderChapters(@)]

\* the document has no comment history at all (recorded with the import)
LegacyOnly(doc) ==
    \A k \in 1..Len(doc.Analysis.items) : ~doc.Analysis.items[k].all_comments.present

(***************************************************************************)
(* Initial state and handlers                                              *)
(***************************************************************************)
Init ==
    /\ storyData = Null
    /\ originalCompleteStory = Null
    /\ selectedAnalysisItem = Null
    /\ isModalOpen = FALSE
    /\ error = ""
    /\ editMode = "single"
    /\ bulkSelectedSentenceIds = {}
    /\ clock \in ImportTimes
    /\ nextId = 1
    /\ steps = 0
    /\ last = [op |-> "init"]
    /\ imported = Null
    /\ massCreated = {}
    /\ newCommentText = <<>>
    /\ editingCommentDetail = Null
    /\ isRecording = FALSE
    /\ speechError = ""
    /\ recognition = "idle"
    /\ modalLog = [events |-> 0, event |-> "init", session |-> 0, startedIn |-> 0,
                   closedWith |-> <<>>, closedEditing |-> FALSE]

UiOnly ==
    UNCHANGED <<storyData, originalCompleteStory, clock, nextId, steps, imported,
                massCreated>>

handleProcessingErrorKeepsBlock(kind, now0) ==
    /\ error' = kind
    /\ storyData' = Null
    /\ imported' = Null
    /\ massCreated' = {}
    /\ nextId' = 1
    /\ clock' = now0
    /\ UNCHANGED <<originalCompleteStory, selectedAnalysisItem, isModalOpen, editMode,
                   bulkSelectedSentenceIds>>

\* handleProcessingError.  (The environment starts afresh with every file
\* read: the id numbering and the clock are relative to the document loaded.)
handleProcessingError(kind, now0) ==
    /\ error' = kind
    /\ storyData' = Null
    /\ originalCompleteStory' = Null
    /\ imported' = Null
    /\ massCreated' = {}
    /\ nextId' = 1
    /\ clock' = now0
    /\ UNCHANGED <<selectedAnalysisItem, isModalOpen, editMode, bulkSelectedSentenceIds>>

\* handleFileLoad; built is what its try block computes from the document
handleFileLoad(doc, built, now0, tick) ==
    /\ editMode' = "single"
    /\ bulkSelectedSentenceIds' = {}
    /\ selectedAnalysisItem' = Null
    /\ massCreated' = {}
    /\ clock' = IF tick THEN now0 + 1 ELSE now0
    /\ UNCHANGED isModalOpen
    /\ IF built.ok
       THEN /\ storyData' = RenderStory(built.story)
            /\ originalCompleteStory' = doc.Story
            /\ imported' = [title |-> built.story.title,
                            chapters |-> RenderChapters(built.story.chapters),
                            original |-> doc.Story,
                            legacyOnly |-> LegacyOnly(doc)]
            /\ nextId' = built.nid
            /\ error' = ""
       ELSE /\ storyData' = Null
            /\ originalCompleteStory' = Null
            /\ imported' = Null
            /\ nextId' = 1
            /\ error' = "process"

\* FileImporter.processFile: reader.onload
processFile(doc, built, now0, tick) ==
    IF BasicValidation(doc)
    THEN handleFileLoad(doc, built, now0, tick)
    ELSE handleProcessingError("parse", now0)

\* a file read completes; the clock advances during the load only when the
\* load reads it more than once
FileLoad ==
    \E doc \in Docs, now0 \in ImportTimes, tick \in BOOLEAN :
        /\ tick => BasicValidation(doc) /\ Built[doc, now0, tick].calls > 1
        /\ last' = [op |-> "load", doc |-> doc, hadStory |-> storyData # Null,
                    reload |-> FALSE]
        /\ steps' = 0
        /\ processFile(doc, Built[doc, now0, tick], now0, tick)
        /\ UNCHANGED modalVars

\* a file that cannot be read or is not JSON: JSON.parse throws in
\* reader.onload, or reader.onerror fires; both call onProcessingError
FileUnreadable ==
    \E now0 \in ImportTimes :
        /\ last' = [op |-> "unreadable", hadStory |-> storyData # Null]
        /\ steps' = 0
        /\ handleProcessingError("parse", now0)
        /\ UNCHANGED modalVars

\* the sentences StoryDisplay shows
Displayed == IF storyData = Null THEN {} ELSE Range(Flatten(storyData.chapters))

\* handleSelectSentence
handleSelectSentence(item) ==
    /\ IF editMode = "single"
       THEN /\ selectedAnalysisItem' = item
            /\ isModalOpen' = TRUE
            /\ UNCHANGED bulkSelectedSentenceIds
       ELSE /\ bulkSelectedSentenceIds' =
                    IF item.id \in bulkSelectedSentenceIds
                    THEN bulkSelectedSentenceIds \ {item.id}
                    ELSE bulkSelectedSentenceIds \cup {item.id}
            /\ selectedAnalysisItem' = Null
            /\ UNCHANGED isModalOpen
    /\ last' = [op |-> "ui"]
    /\ UNCHANGED <<error, editMode>>
    /\ UiOnly

\* a sentence's button is pressed.  The modal is an overlay without a focus
\* trap: it keeps the pointer off the page behind it, not the keyboard, so the
\* buttons of the page can be pressed while it is open.
SelectSentence ==
    /\ steps < MaxOps
    /\ \E item \in Displayed : handleSelectSentence(item)
    /\ UNCHANGED modalVars

\* an EditModeButton click, with the effect that clears the bulk selection
\* once the mode is single
setEditMode(mode) ==
    /\ editMode' = mode
    /\ bulkSelectedSentenceIds' = IF mode = "single" THEN {} ELSE bulkSelectedSentenceIds
    /\ last' = [op |-> "ui"]
    /\ UNCHANGED <<selectedAnalysisItem, isModalOpen, error>>
    /\ UiOnly

SetEditMode ==
    /\ steps < MaxOps
    /\ storyData # Null
    /\ \E mode \in {"single", "mass", "group"} : mode # editMode /\ setEditMode(mode)
    /\ UNCHANGED modalVars

\* handleOpenModalForBulkAnnotate
handleOpenModalForBulkAnnotate ==
    /\ steps < MaxOps
    /\ storyData # Null
    /\ ~isModalOpen
    /\ bulkSelectedSentenceIds # {}
    /\ editMode \in {"mass", "group"}
    /\ selectedAnalysisItem' = Null
    /\ isModalOpen' = TRUE
    /\ last' = [op |-> "ui"]
    /\ UNCHANGED <<error, editMode, bulkSelectedSentenceIds>>
    /\ UiOnly

\* handleCloseModal
handleCloseModal ==
    /\ isModalOpen
    /\ isModalOpen' = FALSE
    /\ last' = [op |-> "ui"]
    /\ UNCHANGED <<selectedAnalysisItem, error, editMode, bulkSelectedSentenceIds>>
    /\ UiOnly

\* the error banner's close button
DismissError ==
    /\ error # ""
    /\ ~isModalOpen
    /\ error' = ""
    /\ last' = [op |-> "ui"]
    /\ UNCHANGED <<selectedAnalysisItem, isModalOpen, editMode, bulkSelectedSentenceIds>>
    /\ UiOnly
    /\ UNCHANGED modalVars

\* the Annotate Selected button, the modal at rest
OpenModalForBulkAnnotate == handleOpenModalForBulkAnnotate /\ UNCHANGED modalVars

\* Cancel, the close button or Escape, the modal at rest
CloseModal == handleCloseModal /\ UNCHANGED modalVars

(***************************************************************************)
(* Annotation Mutator                                                      *)
(***************************************************************************)
\* the k-th generateUniqueId() of one handler run.  The id is built from
\* Date.now() and nine random characters; it is modelled as never returned
\* before and carried by no comment of the loaded document (ids are numbered
\* upwards from above the document's).
\* a faulty variant of generateUniqueId: every call of one handler run returns
\* the same id
generateUniqueIdOnce(k) == nextId

generateUniqueId(k) == nextId + k - 1

RECURSIVE SetToSeq(_)
\* the elements of a set of sentence ids, in a fixed order
SetToSeq(S) ==
    IF S = {} THEN <<>>
    ELSE LET x == CHOOSE x \in S : \A y \in S : ~KeyLess(y, x)
         IN  <<x>> \o SetToSeq(S \ {x})

\* sentences.findIndex(pred), 0 for -1
FirstIndex(n, Pred(_)) ==
    IF \E i \in 1..n : Pred(i) THEN CHOOSE i \in 1..n : Pred(i) /\ \A j \in 1..(i - 1) : ~Pred(j)
    ELSE 0

HasCommentId(s, id) == \E i \in 1..Len(s.comments) : s.comments[i].id = id

HasGroupId(s, gid) == \E i \in 1..Len(s.comments) : s.comments[i].groupId = gid

\* a faulty variant of RetextGroup: the timestamp is not refreshed
RetextGroupKeepTime(s, gid, text, now) ==
    [s EXCEPT !.comments =
        [i \in 1..Len(s.comments) |->
            IF s.comments[i].groupId = gid
            THEN [s.comments[i] EXCEPT !.text = text]
            ELSE s.comments[i]]]

\* s.comments.map(c => c.groupId === groupIdToUpdate ? {...c, text, timestamp: now} : c)
RetextGroup(s, gid, text, now) ==
    [s EXCEPT !.comments =
        [i \in 1..Len(s.comments) |->
            IF s.comments[i].groupId = gid
            THEN [s.comments[i] EXCEPT !.text = text, !.timestamp = now]
            ELSE s.comments[i]]]

\* a faulty variant of EditGroupSentence: a sentence holding the group has all
\* its comments rewritten
EditGroupSentenceAll(s, detail, text, now) ==
    IF HasGroupId(s, detail.groupId)
    THEN [s EXCEPT !.comments =
            [i \in 1..Len(s.comments) |->
                [s.comments[i] EXCEPT !.text = text, !.timestamp = now]]]
    ELSE s

\* a faulty variant of EditGroupSentence: only the sentence holding the edited
\* instance is rewritten
EditGroupSentenceHitOnly(s, detail, text, now) ==
    IF \E i \in 1..Len(s.comments) :
            s.comments[i].groupId = detail.groupId /\ s.comments[i].id = detail.id
    THEN RetextGroup(s, detail.groupId, text, now)
    ELSE s

\* the group branch of the edit: each sentence holding the edited instance, or
\* any other instance of the group, gets every comment of the group rewritten
EditGroupSentence(s, detail, text, now) ==
    IF \E i \in 1..Len(s.comments) :
            s.comments[i].groupId = detail.groupId /\ s.comments[i].id = detail.id
    THEN RetextGroup(s, detail.groupId, text, now)
    ELSE IF HasGroupId(s, detail.groupId)
    THEN RetextGroup(s, detail.groupId, text, now)
    ELSE s

EditGroupChapters(chs, detail, text, now) ==
    [i \in 1..Len(chs) |->
        [chs[i] EXCEPT !.sentences =
            [j \in 1..Len(chs[i].sentences) |->
                EditGroupSentence(chs[i].sentences[j], detail, text, now)]]]

\* a faulty variant of EditGroupItem: the selected item is never refreshed
EditGroupItemNone(chs, detail, text, now, sel) == Null

\* itemThatContainedEditedComment of the group branch: the last rewritten
\* sentence whose id is the selected item's
EditGroupItem(chs, detail, text, now, sel) ==
    LET old == Flatten(chs)
        hit == {i \in 1..Len(old) :
                    /\ sel # Null
                    /\ old[i].id = sel.id
                    /\ HasGroupId(old[i], detail.groupId)}
    IN  IF hit = {} THEN Null
        ELSE EditGroupSentence(old[CHOOSE i \in hit : \A j \in hit : j <= i],
                               detail, text, now)

\* updatedItem.comments.map(c => c.id === id ? {...c, text, timestamp: now} : c)
RetextId(s, id, text, now) ==
    [s EXCEPT !.comments =
        [i \in 1..Len(s.comments) |->
            IF s.comments[i].id = id
            THEN [s.comments[i] EXCEPT !.text = text, !.timestamp = now]
            ELSE s.comments[i]]]

\* the single branch of the edit: the first chapter, in iteration order, with
\* a sentence holding a comment of that id; its first such sentence
EditSingleChapter(chs, id) ==
    FirstIndex(Len(chs), LAMBDA i :
        \E j \in 1..Len(chs[i].sentences) : HasCommentId(chs[i].sentences[j], id))

EditSingleIndex(chs, ci, id) ==
    FirstIndex(Len(chs[ci].sentences), LAMBDA j : HasCommentId(chs[ci].sentences[j], id))

EditSingleChapters(chs, id, text, now) ==
    LET ci == EditSingleChapter(chs, id) IN
    IF ci = 0 THEN chs
    ELSE LET si == EditSingleIndex(chs, ci, id)
         IN  [chs EXCEPT ![ci].sentences[si] = RetextId(@, id, text, now)]

EditSingleItem(chs, id, text, now) ==
    LET ci == EditSingleChapter(chs, id) IN
    IF ci = 0 THEN Null
    ELSE RetextId(chs[ci].sentences[EditSingleIndex(chs, ci, id)], id, text, now)

\* the chapter and position of the first sentence with the given id, chapters
\* taken in iteration order; <<0, 0>> when there is none
FindSentence(chs, id) ==
    LET ci == FirstIndex(Len(chs), LAMBDA i :
                  \E j \in 1..Len(chs[i].sentences) : chs[i].sentences[j].id = id)
    IN  IF ci = 0 THEN <<0, 0>>
        ELSE <<ci, FirstIndex(Len(chs[ci].sentences),
                              LAMBDA j : chs[ci].sentences[j].id = id)>>

\* the single-target add: the selected item's chapter, the first sentence in
\* it with the selected item's id
AddSinglePlace(chs, sel) ==
    LET ci == FirstIndex(Len(chs), LAMBDA i : chs[i].num = sel.ChapterNumber)
    IN  IF ci = 0 THEN <<0, 0>>
        ELSE <<ci, FirstIndex(Len(chs[ci].sentences),
                              LAMBDA j : chs[ci].sentences[j].id = sel.id)>>

\* a faulty variant of NewComment: the group id is left out
NewCommentUngrouped(id, text, type, now, gid, applies) ==
    [id |-> id, text |-> text, type |-> type, timestamp |-> now,
     groupId |-> 0, appliesToSentenceNumbers |-> applies]

NewComment(id, text, type, now, gid, applies) ==
    [id |-> id, text |-> text, type |-> type, timestamp |-> now,
     groupId |-> gid, appliesToSentenceNumbers |-> applies]

\* a faulty variant of AppendComment: the sentence record is rebuilt without
\* its additional analysis
AppendCommentBare(chs, place, c) ==
    [chs EXCEPT ![place[1]].sentences[place[2]] =
        [@ EXCEPT !.comments = Append(@, c), !.additionalAnalysis = <<>>]]

\* updatedItem = {...sentence, comments: [...sentence.comments, newComment]}
AppendComment(chs, place, c) ==
    [chs EXCEPT ![place[1]].sentences[place[2]].comments = Append(@, c)]

\* Array.from(bulkSelectedSentenceIds).map(id => number of the first sentence
\* with that id, or -1).filter(n => n !== -1).sort((a, b) => a - b)
SentenceNumbersForGroup(chs, ids) ==
    LET nums == [k \in 1..Len(ids) |->
                    LET pl == FindSentence(chs, ids[k])
                    IN  IF pl[1] = 0 THEN 0 - 1
                        ELSE chs[pl[1]].sentences[pl[2]].SentenceNumber]
    IN  SortNumbers(SelectSeq(nums, LAMBDA n : n # 0 - 1))

RECURSIVE AddBulkLoop(_, _, _, _, _, _, _, _)
\* bulkSelectedSentenceIds.forEach(itemId => ...): one new comment on the
\* first sentence with that id; k numbers the generateUniqueId() calls
AddBulkLoop(chs, ids, k, text, type, now, gid, applies) ==
    IF ids = <<>> THEN chs
    ELSE LET pl == FindSentence(chs, Head(ids))
         IN  IF pl[1] = 0
             THEN AddBulkLoop(chs, Tail(ids), k, text, type, now, gid, applies)
             ELSE AddBulkLoop(
                    AppendComment(chs, pl,
                        NewComment(generateUniqueId(k), text, type, now, gid, applies)),
                    Tail(ids), k + 1, text, type, now, gid, applies)

\* a faulty variant of AddBulkChapters: the comments of a mass add share a
\* group id
AddBulkChaptersLinked(chs, mode, bulk, text, now) ==
    AddBulkLoop(chs, SetToSeq(bulk), 2, text,
                IF mode = "group" THEN "group" ELSE "single", now,
                generateUniqueId(1),
                IF mode = "group"
                THEN SomeApplies(SentenceNumbersForGroup(chs, SetToSeq(bulk)))
                ELSE NoApplies)

AddBulkChapters(chs, mode, bulk, text, now) ==
    LET ids == SetToSeq(bulk) IN
    IF mode = "group"
    THEN AddBulkLoop(chs, ids, 2, text, "group", now, generateUniqueId(1),
                     SomeApplies(SentenceNumbersForGroup(chs, ids)))
    ELSE AddBulkLoop(chs, ids, 1, text, "single", now, 0, NoApplies)

\* the number of generateUniqueId() calls of a bulk add
AddBulkIds(chs, mode, bulk) ==
    Cardinality({id \in bulk : FindSentence(chs, id)[1] # 0})
        + (IF mode = "group" THEN 1 ELSE 0)

\* what handleSaveOrUpdateComment computes past its guard: the new chapters
\* map, the selected item and the bulk selection it sets
SaveOutcome(chs, sel, mode, bulk, text, detail, now) ==
    IF detail # Null
    THEN LET item == IF detail.groupId # 0
                     THEN EditGroupItem(chs, detail, text, now, sel)
                     ELSE EditSingleItem(chs, detail.id, text, now)
         IN  [chapters |-> IF detail.groupId # 0
                           THEN EditGroupChapters(chs, detail, text, now)
                           ELSE EditSingleChapters(chs, detail.id, text, now),
              selected |-> IF sel # Null /\ item # Null /\ sel.id = item.id
                           THEN item ELSE sel,
              bulk |-> bulk, ids |-> 0]
    ELSE IF mode = "single" /\ sel # Null
    THEN LET pl == AddSinglePlace(chs, sel) IN
         IF pl[1] = 0 \/ pl[2] = 0
         THEN [chapters |-> chs, selected |-> sel, bulk |-> bulk, ids |-> 0]
         ELSE LET new == AppendComment(chs, pl,
                            NewComment(generateUniqueId(1), text, "single", now, 0,
                                       NoApplies))
              IN  [chapters |-> new,
                   selected |-> new[pl[1]].sentences[pl[2]],
                   bulk |-> bulk, ids |-> 1]
    ELSE IF mode \in {"mass", "group"} /\ bulk # {}
    THEN [chapters |-> AddBulkChapters(chs, mode, bulk, text, now),
          selected |-> sel, bulk |-> {},
          ids |-> AddBulkIds(chs, mode, bulk)]
    ELSE [chapters |-> chs, selected |-> sel, bulk |-> bulk, ids |-> 0]

\* a faulty variant of IsBlank: no text is refused
IsBlankNever(text) == FALSE

\* commentText.trim() === ''
IsBlank(text) == Trim(text) = <<>>

\* AnnotationModal.handleSaveOrUpdate calling App.handleSaveOrUpdateComment
handleSaveOrUpdateComment(rawText, detail, now) ==
    /\ last' = [op |-> IF detail # Null THEN "edit" ELSE "add",
                pre |-> storyData, sel |-> selectedAnalysisItem, mode |-> editMode,
                bulk |-> bulkSelectedSentenceIds, open |-> isModalOpen,
                err |-> error, text |-> rawText, detail |-> detail, now |-> now,
                done |-> storyData # Null /\ ~IsBlank(rawText)]
    /\ IF storyData = Null \/ IsBlank(rawText)
       THEN UNCHANGED <<storyData, selectedAnalysisItem, bulkSelectedSentenceIds,
                        isModalOpen, clock, nextId, steps, massCreated>>
       ELSE LET out == SaveOutcome(storyData.chapters, selectedAnalysisItem, editMode,
                                   bulkSelectedSentenceIds, Trim(rawText), detail, now)
            IN  /\ storyData' = RenderStory([storyData EXCEPT !.chapters = out.chapters])
                /\ selectedAnalysisItem' = RenderItem(out.selected)
                /\ bulkSelectedSentenceIds' = out.bulk
                /\ isModalOpen' = FALSE
                /\ clock' = now
                /\ nextId' = nextId + out.ids
                /\ steps' = steps + 1
                /\ massCreated' =
                        IF detail = Null /\ editMode = "mass"
                           /\ bulkSelectedSentenceIds # {}
                        THEN {generateUniqueId(k) : k \in 1..out.ids}
                        ELSE massCreated
    /\ UNCHANGED <<originalCompleteStory, error, editMode, imported>>

\* what the user types into the modal's text area: for a new annotation, and
\* over the text of an annotation being edited
NewTexts == {<<" ">>, <<"a", " ">>}

EditTexts == {<<" ">>, <<" ", "b">>}

\* Save Annotation (or Ctrl/Cmd+Enter) with no comment being edited
SaveNew ==
    /\ isModalOpen
    /\ steps < MaxOps
    /\ \E rawText \in NewTexts, now \in {clock + 1} :
            handleSaveOrUpdateComment(rawText, Null, now)
    /\ UNCHANGED modalVars

\* the comments the modal lists, each with an edit and a delete button
ListedComments ==
    IF selectedAnalysisItem = Null THEN {} ELSE Range(selectedAnalysisItem.comments)

\* handleEditComment on a listed comment, then Update Annotation
UpdateComment ==
    /\ isModalOpen
    /\ steps < MaxOps
    /\ \E c \in ListedComments, rawText \in EditTexts, now \in {clock + 1} :
            handleSaveOrUpdateComment(rawText, [id |-> c.id, groupId |-> c.groupId], now)
    /\ UNCHANGED modalVars

\* handleSaveOrUpdateComment asked to update a comment the container does not
\* hold: the id (and, for a group edit, the group id) is one generateUniqueId
\* has not yet given out. The modal keeps the detail of a listed comment and
\* drops it whenever its item changes, so this is the handler's answer to a
\* caller other than the modal's Update button
UpdateUnknownComment ==
    /\ isModalOpen
    /\ steps < MaxOps
    /\ storyData # Null
    /\ \E gid \in {0, generateUniqueId(1)}, rawText \in EditTexts, now \in {clock + 1} :
            /\ ~IsBlank(rawText)
            /\ handleSaveOrUpdateComment(rawText,
                    [id |-> generateUniqueId(1), groupId |-> gid], now)
    /\ UNCHANGED modalVars

\* the comment the ids of a delete designate: the first comment with that id
\* on the first sentence with that id (Null when there is none)
commentToDeleteDetails(chs, itemId, commentId) ==
    LET ss == Flatten(chs)
        si == FirstIndex(Len(ss), LAMBDA i : ss[i].id = itemId)
    IN  IF si = 0 THEN Null
        ELSE LET ci == FirstIndex(Len(ss[si].comments),
                                  LAMBDA j : ss[si].comments[j].id = commentId)
             IN  IF ci = 0 THEN Null ELSE ss[si].comments[ci]

\* a faulty variant of DeleteGroupChapters: the group is removed from the first
\* sentence holding it only
DeleteGroupChaptersFirstOnly(chs, gid) ==
    LET ci == FirstIndex(Len(chs), LAMBDA i :
                  \E j \in 1..Len(chs[i].sentences) : HasGroupId(chs[i].sentences[j], gid))
    IN  IF ci = 0 THEN chs
        ELSE [chs EXCEPT ![ci].sentences[
                    FirstIndex(Len(chs[ci].sentences),
                               LAMBDA j : HasGroupId(chs[ci].sentences[j], gid))].comments =
                 SelectSeq(@, LAMBDA c : c.groupId # gid)]

\* s.comments.filter(c => c.groupId !== groupIdToDelete), in every sentence
DeleteGroupChapters(chs, gid) ==
    [i \in 1..Len(chs) |->
        [chs[i] EXCEPT !.sentences =
            [j \in 1..Len(chs[i].sentences) |->
                [chs[i].sentences[j] EXCEPT !.comments =
                    SelectSeq(@, LAMBDA c : c.groupId # gid)]]]]

\* a faulty variant of DeleteSingleChapters: the comment list of the sentence
\* is emptied
DeleteSingleChaptersAll(chs, itemId, commentId) ==
    LET pl == FindSentence(chs, itemId) IN
    IF pl[1] = 0 THEN chs
    ELSE [chs EXCEPT ![pl[1]].sentences[pl[2]].comments = <<>>]

\* currentItem.comments.filter(c => c.id !== commentId) on the first sentence
\* with the item's id
DeleteSingleChapters(chs, itemId, commentId) ==
    LET pl == FindSentence(chs, itemId) IN
    IF pl[1] = 0 THEN chs
    ELSE [chs EXCEPT ![pl[1]].sentences[pl[2]].comments =
                SelectSeq(@, LAMBDA c : c.id # commentId)]

DeleteOutcome(chs, itemId, commentId) ==
    LET d == commentToDeleteDetails(chs, itemId, commentId) IN
    IF d # Null /\ d.type = "group" /\ d.groupId # 0
    THEN DeleteGroupChapters(chs, d.groupId)
    ELSE DeleteSingleChapters(chs, itemId, commentId)

\* AnnotationModal.handleDelete calling App.handleDeleteComment
handleDeleteComment(itemId, commentId) ==
    /\ last' = [op |-> "delete", pre |-> storyData, sel |-> selectedAnalysisItem,
                itemId |-> itemId, commentId |-> commentId, err |-> error,
                done |-> storyData # Null]
    /\ IF storyData = Null
       THEN UNCHANGED <<storyData, selectedAnalysisItem, steps>>
       ELSE LET new == RenderChapters(DeleteOutcome(storyData.chapters, itemId, commentId))
                pl == FindSentence(new, itemId)
            IN  /\ storyData' = [storyData EXCEPT !.chapters = new]
                /\ selectedAnalysisItem' =
                        IF selectedAnalysisItem # Null /\ selectedAnalysisItem.id = itemId
                        THEN (IF pl[1] = 0 THEN Null ELSE new[pl[1]].sentences[pl[2]])
                        ELSE selectedAnalysisItem
                /\ steps' = steps + 1
    /\ UNCHANGED <<originalCompleteStory, isModalOpen, error, editMode,
                   bulkSelectedSentenceIds, clock, nextId, imported, massCreated>>

DeleteComment ==
    /\ isModalOpen
    /\ steps < MaxOps
    /\ selectedAnalysisItem # Null
    /\ \E c \in ListedComments : handleDeleteComment(selectedAnalysisItem.id, c.id)
    /\ UNCHANGED modalVars

\* handleDeleteComment asked to delete, from the sentence shown, a comment id
\* the container does not hold (one generateUniqueId has not yet given out);
\* the modal's delete buttons only pass the ids of listed comments
DeleteUnknownComment ==
    /\ isModalOpen
    /\ steps < MaxOps
    /\ storyData # Null
    /\ selectedAnalysisItem # Null
    /\ handleDeleteComment(selectedAnalysisItem.id, generateUniqueId(1))
    /\ UNCHANGED modalVars

(***************************************************************************)
(* Story Exporter.  The file written is kept in last.out: the array of     *)
(* entries for a simple export, the whole document for a full one.         *)
(***************************************************************************)
\* a faulty variant of latestComment: the oldest comment
oldestComment(comments) ==
    IF comments = <<>> THEN Null
    ELSE SortByTimestampDesc(comments)[Len(comments)]

\* [...item.comments].sort((a, b) => b.timestamp - a.timestamp)[0], or null
latestComment(comments) ==
    IF comments = <<>> THEN Null ELSE SortByTimestampDesc(comments)[1]

\* commentText: the text of the latest comment, undefined without one
commentText(item) ==
    IF latestComment(item.comments) = Null THEN Absent
    ELSE Given(latestComment(item.comments).text)

\* a faulty variant of commentAppliesTo: the list of the oldest comment
commentAppliesToOldest(item) ==
    LET c == oldestComment(item.comments) IN
    IF c # Null /\ c.type = "group" /\ c.appliesToSentenceNumbers.some
    THEN Given(Join(c.appliesToSentenceNumbers.v))
    ELSE Absent

\* commentAppliesTo: appliesToSentenceNumbers.join(',') of the latest comment
\* when that is a group comment having the list, else undefined
commentAppliesTo(item) ==
    LET c == latestComment(item.comments) IN
    IF c # Null /\ c.type = "group" /\ c.appliesToSentenceNumbers.some
    THEN Given(Join(c.appliesToSentenceNumbers.v))
    ELSE Absent

\* if (value) field = value: the field is written only for a truthy value
WrittenIfTruthy(field) == IF Truthy(field) THEN field ELSE Absent

\* the entry of one sentence in the simple export
SimpleEntry(item) ==
    [Sentence |-> item.Sentence,
     SentenceNumber |-> RawNum(item.SentenceNumber),
     comment |-> WrittenIfTruthy(commentText(item)),
     appliesTo |-> WrittenIfTruthy(commentAppliesTo(item))]

\* a faulty variant of FullEntry: the history is left out
FullEntryLegacyOnly(item) ==
    [Sentence |-> item.Sentence,
     ChapterNumber |-> RawNum(item.ChapterNumber),
     SentenceNumber |-> RawNum(item.SentenceNumber),
     props |-> [k \in DOMAIN item.additionalAnalysis |->
                    RawStr(item.additionalAnalysis[k])],
     all_comments |-> NoHistory,
     comment |-> WrittenIfTruthy(commentText(item)),
     appliesTo |-> WrittenIfTruthy(commentAppliesTo(item))]

\* the entry of one sentence in the full export
FullEntry(item) ==
    [Sentence |-> item.Sentence,
     ChapterNumber |-> RawNum(item.ChapterNumber),
     SentenceNumber |-> RawNum(item.SentenceNumber),
     props |-> [k \in DOMAIN item.additionalAnalysis |->
                    RawStr(item.additionalAnalysis[k])],
     all_comments |-> History(item.comments),
     comment |-> WrittenIfTruthy(commentText(item)),
     appliesTo |-> WrittenIfTruthy(commentAppliesTo(item))]

\* a faulty variant of SortEntries: the entries stay in the order of the
\* chapters map
SortEntriesNot(es, isSimple) == es

\* analysisToExport.sort(...): by chapter number, then sentence number (the
\* simple entries have no chapter number and compare on the sentence number)
SortEntries(es, isSimple) ==
    StableSort([i \in 1..Len(es) |->
        <<IF isSimple THEN <<es[i].SentenceNumber.v>>
          ELSE <<es[i].ChapterNumber.v, es[i].SentenceNumber.v>>, es[i]>>])

\* storyData.chapters.forEach(... sentencesInChapter.forEach(...)), sorted
analysisToExport(story, isSimple) ==
    LET ss == Flatten(story.chapters)
    IN  SortEntries([i \in 1..Len(ss) |->
                        IF isSimple THEN SimpleEntry(ss[i]) ELSE FullEntry(ss[i])],
                    isSimple)

\* exportData of a full export
FullExportData(story, original) ==
    [Analysis |-> [kind |-> "array", items |-> analysisToExport(story, FALSE)],
     Story |-> [present |-> TRUE, Title |-> story.title,
                Chapters |-> original.Chapters]]

commonExportLogic(isSimple) ==
    IF storyData = Null \/ originalCompleteStory = Null
    THEN /\ error' = "export"
         /\ last' = [op |-> "ui"]
         /\ UNCHANGED <<selectedAnalysisItem, isModalOpen, editMode,
                        bulkSelectedSentenceIds>>
         /\ UiOnly
    ELSE /\ last' = [op |-> "export", simple |-> isSimple,
                     out |-> IF isSimple THEN analysisToExport(storyData, TRUE)
                             ELSE FullExportData(storyData, originalCompleteStory)]
         /\ UNCHANGED <<selectedAnalysisItem, isModalOpen, editMode,
                        bulkSelectedSentenceIds, error>>
         /\ UiOnly

\* the export buttons, shown with a story and reachable with the modal closed
handleSimpleExport ==
    /\ storyData # Null
    /\ ~isModalOpen
    /\ commonExportLogic(TRUE)
    /\ UNCHANGED modalVars

handleFullExport ==
    /\ storyData # Null
    /\ ~isModalOpen
    /\ commonExportLogic(FALSE)
    /\ UNCHANGED modalVars

\* the file a full export of the story shown has written is loaded again
\* (the session's count of container changes goes on)
LoadExported ==
    /\ storyData # Null
    /\ originalCompleteStory # Null
    /\ ~isModalOpen
    /\ \E now0 \in ImportTimes :
          LET doc == FullExportData(storyData, originalCompleteStory)
          IN  /\ last' = [op |-> "load", doc |-> doc, hadStory |-> TRUE,
                          reload |-> TRUE, pre |-> storyData,
                          preOriginal |-> originalCompleteStory]
              /\ UNCHANGED steps
              /\ processFile(doc, BuildStory(doc, now0, FALSE), now0, FALSE)
    /\ UNCHANGED modalVars

Next ==
    \/ FileLoad
    \/ FileUnreadable
    \/ SelectSentence
    \/ SetEditMode
    \/ OpenModalForBulkAnnotate
    \/ CloseModal
    \/ DismissError
    \/ SaveNew
    \/ UpdateComment
    \/ UpdateUnknownComment
    \/ DeleteComment
    \/ DeleteUnknownComment
    \/ handleSimpleExport
    \/ handleFullExport
    \/ LoadExported

Spec == Init /\ [][Next]_vars

(***************************************************************************)
(* AnnotationModal.  The component stays mounted while the modal is        *)
(* closed (it renders nothing), so its state and the handlers bound to the *)
(* one module-level recognition object outlive a close.  recognition is    *)
(* "idle", "listening" (started), "stopping" (stop() called: the service   *)
(* may still return a result for what it has heard) or "ending" (a result  *)
(* or an error was delivered, end is still to come).                       *)
(***************************************************************************)
MaxEvents == 7

MaxDraft == 3

\* event.results[0][0].transcript
Transcript == <<"t">>

\* what the text area's onChange and the tool buttons put into the draft
TypedTexts == {<<" ">>, <<"a">>}

\* the files read while the modal is followed
ModalDocs == {DocGaps, Document(TwoEntries, "")}

\* recognition.stop()
RecognitionStop(r) == IF r = "listening" THEN "stopping" ELSE r

\* bookkeeping of the modal's events: how many, the last one, the number of
\* the current (or last) open period, the open period in which recognition
\* was last started, and what the last close left in the draft
Logged(event) ==
    [modalLog EXCEPT !.events = @ + 1,
                     !.event = event,
                     !.session = IF isModalOpen' /\ ~isModalOpen THEN @ + 1 ELSE @,
                     !.closedWith = IF event = "close" THEN newCommentText ELSE @,
                     !.closedEditing = IF event = "close"
                                       THEN editingCommentDetail # Null ELSE @]

OpenCloseEffectNoReset(text, detail) ==
    /\ newCommentText' = text
    /\ editingCommentDetail' = detail
    /\ isRecording' = (isRecording /\ isModalOpen')
    /\ recognition' = IF isRecording /\ ~isModalOpen'
                      THEN RecognitionStop(recognition) ELSE recognition
    /\ UNCHANGED speechError

\* the effect on [isOpen, item, editMode, bulkSelectionCount], run after a
\* handler that left the draft at text and the comment being edited at detail
OpenCloseEffect(text, detail) ==
    LET changed == <<isModalOpen', selectedAnalysisItem', editMode',
                     Cardinality(bulkSelectedSentenceIds')>>
                   # <<isModalOpen, selectedAnalysisItem, editMode,
                       Cardinality(bulkSelectedSentenceIds)>>
    IN  IF changed /\ isModalOpen'
        THEN /\ newCommentText' = <<>>
             /\ editingCommentDetail' = Null
             /\ speechError' = ""
             /\ UNCHANGED <<isRecording, recognition>>
        ELSE IF changed /\ isRecording
        THEN /\ newCommentText' = text
             /\ editingCommentDetail' = detail
             /\ recognition' = RecognitionStop(recognition)
             /\ isRecording' = FALSE
             /\ UNCHANGED speechError
        ELSE /\ newCommentText' = text
             /\ editingCommentDetail' = detail
             /\ UNCHANGED <<speechError, isRecording, recognition>>

ModalOnly ==
    UNCHANGED <<storyData, originalCompleteStory, selectedAnalysisItem, isModalOpen,
                error, editMode, bulkSelectedSentenceIds, clock, nextId, steps,
                last, imported, massCreated>>

\* a file read completes
ModalFileLoad ==
    /\ modalLog.events < MaxEvents
    /\ \E doc \in ModalDocs :
        /\ last' = [op |-> "load", doc |-> doc, hadStory |-> storyData # Null,
                    reload |-> FALSE]
        /\ steps' = 0
        /\ processFile(doc, Built[doc, 2, FALSE], 2, FALSE)
    /\ OpenCloseEffect(newCommentText, editingCommentDetail)
    /\ modalLog' = Logged("load")

\* a sentence's button is pressed
ModalSelectSentence ==
    /\ modalLog.events < MaxEvents
    /\ \E item \in Displayed : handleSelectSentence(item)
    /\ OpenCloseEffect(newCommentText, editingCommentDetail)
    /\ modalLog' = Logged("select")

\* an EditModeButton click
ModalSetEditMode ==
    /\ modalLog.events < MaxEvents
    /\ storyData # Null
    /\ \E mode \in {"single", "mass"} : mode # editMode /\ setEditMode(mode)
    /\ OpenCloseEffect(newCommentText, editingCommentDetail)
    /\ modalLog' = Logged("mode")

\* the Annotate Selected button
ModalOpenForBulkAnnotate ==
    /\ modalLog.events < MaxEvents
    /\ handleOpenModalForBulkAnnotate
    /\ OpenCloseEffect(newCommentText, editingCommentDetail)
    /\ modalLog' = Logged("bulk")

\* Cancel, the close button, or Escape in handleKeyDown: onClose
ModalClose ==
    /\ modalLog.events < MaxEvents
    /\ handleCloseModal
    /\ OpenCloseEffect(newCommentText, editingCommentDetail)
    /\ modalLog' = Logged("close")

\* the text area's onChange, handleToolButtonClick
ModalType ==
    /\ modalLog.events < MaxEvents
    /\ isModalOpen
    /\ \E text \in TypedTexts : text # newCommentText /\ newCommentText' = text
    /\ UNCHANGED <<editingCommentDetail, isRecording, speechError, recognition>>
    /\ ModalOnly
    /\ modalLog' = Logged("type")

\* handleEditComment
handleEditComment ==
    /\ modalLog.events < MaxEvents
    /\ isModalOpen
    /\ \E c \in ListedComments :
        /\ newCommentText' = c.text
        /\ editingCommentDetail' = [id |-> c.id, groupId |-> c.groupId]
    /\ speechError' = ""
    /\ UNCHANGED <<isRecording, recognition>>
    /\ ModalOnly
    /\ modalLog' = Logged("edit")

\* AnnotationModal.handleSaveOrUpdate
handleSaveOrUpdate(event) ==
    /\ modalLog.events < MaxEvents
    /\ isModalOpen
    /\ ~IsBlank(newCommentText)
    /\ handleSaveOrUpdateComment(Trim(newCommentText), editingCommentDetail, clock + 1)
    /\ OpenCloseEffect(<<>>, Null)
    /\ modalLog' = Logged(event)

\* the Save button: disabled={newCommentText.trim() === '' || isRecording}
ModalSaveButton ==
    /\ ~isRecording
    /\ handleSaveOrUpdate("save")

\* handleKeyDown: Ctrl/Cmd+Enter with the text area focused
ModalSaveShortcut == handleSaveOrUpdate("shortcut")

\* AnnotationModal.handleDelete on a listed comment
handleDelete ==
    /\ modalLog.events < MaxEvents
    /\ isModalOpen
    /\ selectedAnalysisItem # Null
    /\ \E c \in ListedComments :
        LET edited == editingCommentDetail # Null /\ editingCommentDetail.id = c.id
        IN  /\ handleDeleteComment(selectedAnalysisItem.id, c.id)
            /\ OpenCloseEffect(IF edited THEN <<>> ELSE newCommentText,
                               IF edited THEN Null ELSE editingCommentDetail)
    /\ modalLog' = Logged("delete")

\* handleToggleRecording; recognition.start() throws when it has been started
\* and has not ended yet
handleToggleRecording ==
    /\ modalLog.events < MaxEvents
    /\ isModalOpen
    /\ ModalOnly
    /\ IF isRecording
       THEN /\ recognition' = RecognitionStop(recognition)
            /\ isRecording' = FALSE
            /\ UNCHANGED speechError
            /\ modalLog' = Logged("toggle")
       ELSE IF recognition = "idle"
       THEN /\ recognition' = "listening"
            /\ isRecording' = TRUE
            /\ speechError' = ""
            /\ modalLog' = [Logged("toggle") EXCEPT !.startedIn = modalLog.session]
       ELSE /\ speechError' = "start"
            /\ isRecording' = FALSE
            /\ UNCHANGED recognition
            /\ modalLog' = Logged("toggle")
    /\ UNCHANGED <<newCommentText, editingCommentDetail>>

\* recognition.onresult
onresult ==
    /\ modalLog.events < MaxEvents
    /\ recognition \in {"listening", "stopping"}
    /\ Len(newCommentText) < MaxDraft
    /\ newCommentText' = IF newCommentText # <<>>
                         THEN newCommentText \o <<" ">> \o Transcript
                         ELSE Transcript
    /\ isRecording' = FALSE
    /\ recognition' = "ending"
    /\ UNCHANGED <<editingCommentDetail, speechError>>
    /\ ModalOnly
    /\ modalLog' = Logged("result")

\* recognition.onerror
onerror ==
    /\ modalLog.events < MaxEvents
    /\ recognition \in {"listening", "stopping"}
    /\ speechError' = "speech"
    /\ isRecording' = FALSE
    /\ recognition' = "ending"
    /\ UNCHANGED <<newCommentText, editingCommentDetail>>
    /\ ModalOnly
    /\ modalLog' = Logged("error")

\* recognition.onend
onend ==
    /\ modalLog.events < MaxEvents
    /\ recognition # "idle"
    /\ isRecording' = FALSE
    /\ recognition' = "idle"
    /\ UNCHANGED <<newCommentText, editingCommentDetail, speechError>>
    /\ ModalOnly
    /\ modalLog' = Logged("end")

ModalNext ==
    \/ ModalFileLoad
    \/ ModalSelectSentence
    \/ ModalSetEditMode
    \/ ModalOpenForBulkAnnotate
    \/ ModalClose
    \/ ModalType
    \/ handleEditComment
    \/ ModalSaveButton
    \/ ModalSaveShortcut
    \/ handleDelete
    \/ handleToggleRecording
    \/ onresult
    \/ onerror
    \/ onend

ModalSpec == Init /\ [][ModalNext]_vars

(***************************************************************************)
(* Properties.  last records the operation that led to the current state   *)
(* (with the container before it in last.pre), imported the container as   *)
(* the last file load built it.                                            *)
(***************************************************************************)
\* the sentences before and after the last operation, in iteration order
PreS == Flatten(last.pre.chapters)

PostS == Flatten(storyData.chapters)

\* the ids and group ids in use before the last operation
PreIds ==
    {c.id : c \in Range(AllComments(last.pre.chapters))}
        \cup {c.groupId : c \in Range(AllComments(last.pre.chapters))}

\* the positions of the sentences holding a comment of group g
Holders(ss, g) == {i \in 1..Len(ss) : \E c \in Range(ss[i].comments) : c.groupId = g}

\* all comments sharing a group id have the same text and timestamp
GroupConsistent(chs) ==
    \A c1, c2 \in Range(AllComments(chs)) :
        (c1.groupId # 0 /\ c1.groupId = c2.groupId)
            => (c1.text = c2.text /\ c1.timestamp = c2.timestamp)

\* no two comments of the container carry the same id
UniqueCommentIds(chs) ==
    LET all == AllComments(chs)
    IN  \A i, j \in 1..Len(all) : i # j => all[i].id # all[j].id

\* C1 as stated: whenever the story last imported was group-consistent, the
\* story held is group-consistent, whatever adds, edits and deletes followed.
C1_AsStated ==
    (storyData # Null /\ imported # Null /\ GroupConsistent(imported.chapters))
        => GroupConsistent(storyData.chapters)

\* C1 (amended): whenever the story last imported was group-consistent and its
\* comment ids were pairwise distinct, the story held is group-consistent,
\* whatever adds, edits and deletes followed the import.
C1_GroupConsistency ==
    (/\ storyData # Null
     /\ imported # Null
     /\ UniqueCommentIds(imported.chapters)
     /\ GroupConsistent(imported.chapters))
        => GroupConsistent(storyData.chapters)

\* a group edit has just rewritten a group that an import with distinct ids
\* brought in and that spans two sentences
C1_Witness ==
    /\ last.op = "edit" /\ last.done /\ last.detail.groupId # 0
    /\ imported # Null
    /\ UniqueCommentIds(imported.chapters)
    /\ GroupConsistent(imported.chapters)
    /\ Cardinality(Holders(Flatten(imported.chapters), last.detail.groupId)) >= 2
    /\ Cardinality(Holders(PostS, last.detail.groupId)) >= 2
    /\ \E c \in Range(AllComments(last.pre.chapters)) :
            c.groupId = last.detail.groupId /\ c.text # Trim(last.text)

\* true of a strictly ascending sequence of numbers
Ascending(ns) == \A i \in 1..(Len(ns) - 1) : ns[i] < ns[i + 1]

\* the comments of a sentence that the last operation created
Created(s) == SelectSeq(s.comments, LAMBDA c : c.id \notin PreIds)

\* C2 as stated: a group-add over the non-empty target set S leaves, on each
\* sentence of S, exactly one new comment and none elsewhere; the new comments
\* are of kind group, with one fresh group id, the trimmed text, the time of
\* the operation and the ascending sentence numbers of S as applies-to list.
C2_GroupAdd ==
    (last.op = "add" /\ last.done /\ last.mode = "group" /\ last.bulk # {})
        => LET T == {i \in 1..Len(PreS) : PreS[i].id \in last.bulk}
           IN  /\ Len(PostS) = Len(PreS)
               /\ Len(AllComments(storyData.chapters))
                      = Len(AllComments(last.pre.chapters)) + Cardinality(last.bulk)
               /\ \A i \in 1..Len(PreS) \ T : PostS[i].comments = PreS[i].comments
               /\ \A i \in T :
                      /\ Len(Created(PostS[i])) = 1
                      /\ Len(PostS[i].comments) = Len(PreS[i].comments) + 1
               /\ \E g \in 1..(nextId - 1) :
                      /\ g \notin PreIds
                      /\ \A i \in T :
                            LET c == Created(PostS[i])[1]
                            IN  /\ c.type = "group"
                                /\ c.groupId = g
                                /\ c.id # g
                                /\ c.text = Trim(last.text)
                                /\ c.timestamp = last.now
                                /\ c.appliesToSentenceNumbers.some
                                /\ Ascending(c.appliesToSentenceNumbers.v)
                                /\ Range(c.appliesToSentenceNumbers.v)
                                      = {PreS[k].SentenceNumber : k \in T}

\* C3: after an edit of a comment carrying group id G, every comment carrying
\* G has the trimmed new text and the time of the edit, and each sentence
\* holds as many comments of G as before.
C3_GroupEdit ==
    (last.op = "edit" /\ last.done /\ last.detail.groupId # 0)
        => /\ \A c \in Range(AllComments(storyData.chapters)) :
                  c.groupId = last.detail.groupId
                      => (c.text = Trim(last.text) /\ c.timestamp = last.now)
           /\ \A i \in 1..Len(PreS) :
                  Len(SelectSeq(PostS[i].comments,
                                LAMBDA c : c.groupId = last.detail.groupId))
                      = Len(SelectSeq(PreS[i].comments,
                                      LAMBDA c : c.groupId = last.detail.groupId))

\* an edit has just given a group held by two sentences a text it did not have
C3_Witness ==
    /\ last.op = "edit" /\ last.done /\ last.detail.groupId # 0
    /\ Cardinality(Holders(PreS, last.detail.groupId)) >= 2
    /\ \A c \in Range(AllComments(last.pre.chapters)) :
            c.groupId = last.detail.groupId => c.text # Trim(last.text)

\* the comment a delete designates: the first with the comment id on the first
\* sentence with the sentence id
Designated ==
    LET S == {i \in 1..Len(PreS) : PreS[i].id = last.itemId}
    IN  IF S = {} THEN Null
        ELSE LET cs == PreS[CHOOSE i \in S : \A j \in S : i <= j].comments
                 C == {j \in 1..Len(cs) : cs[j].id = last.commentId}
             IN  IF C = {} THEN Null
                 ELSE cs[CHOOSE j \in C : \A k \in C : j <= k]

TargetId == IF last.op = "edit" THEN last.detail.id ELSE last.commentId

\* the comments with the given id, sentence by sentence
WithId(ss, id) == [i \in 1..Len(ss) |-> SelectSeq(ss[i].comments, LAMBDA c : c.id = id)]

\* C5: a mass add over a non-empty target set leaves on each target exactly
\* one new comment of kind single, with a fresh id of its own, no group id,
\* the trimmed text and the time of the operation, and none elsewhere; a later
\* edit or delete aimed at one of these comments leaves the others of the same
\* mass add as they were.
C5_MassAdd ==
    /\ (last.op = "add" /\ last.done /\ last.mode = "mass" /\ last.bulk # {})
        => LET T == {i \in 1..Len(PreS) : PreS[i].id \in last.bulk}
           IN  /\ \A i \in 1..Len(PreS) \ T : PostS[i].comments = PreS[i].comments
               /\ \A i \in T :
                      /\ Len(Created(PostS[i])) = 1
                      /\ Len(PostS[i].comments) = Len(PreS[i].comments) + 1
                      /\ Created(PostS[i])[1].type = "single"
                      /\ Created(PostS[i])[1].groupId = 0
                      /\ Created(PostS[i])[1].text = Trim(last.text)
                      /\ Created(PostS[i])[1].timestamp = last.now
               /\ \A i, j \in T :
                      i # j => Created(PostS[i])[1].id # Created(PostS[j])[1].id
    /\ (last.op \in {"edit", "delete"} /\ last.done /\ TargetId \in massCreated)
        => \A id \in massCreated \ {TargetId} : WithId(PostS, id) = WithId(PreS, id)

\* an edit has just been aimed at a comment of a mass add of which another
\* sentence still held a sibling
C5_Witness ==
    /\ last.op = "edit" /\ last.done /\ TargetId \in massCreated
    /\ \E id \in massCreated \ {TargetId} :
            \E c \in Range(AllComments(last.pre.chapters)) : c.id = id
    /\ \E c \in Range(AllComments(storyData.chapters)) :
            c.id = TargetId /\ c.timestamp = last.now

\* the sentences of the chapter numbered n
ChapterSentences(story, n) ==
    Concat([i \in 1..Len(story.chapters) |->
                IF story.chapters[i].num = n THEN story.chapters[i].sentences
                ELSE <<>>])

ChapterNumbers(story) == {story.chapters[i].num : i \in 1..Len(story.chapters)}

\* the same title, the same chapters and in each chapter the same sentences
\* with the same comments
Equivalent(a, b) ==
    /\ a.title = b.title
    /\ ChapterNumbers(a) = ChapterNumbers(b)
    /\ \A n \in ChapterNumbers(a) : ChapterSentences(a, n) = ChapterSentences(b, n)

\* C6: loading the file a full export has written succeeds and gives a story
\* equivalent to the one exported: the same sentences in the same chapters,
\* each with the same comments (id, text, kind, timestamp, group id and
\* applies-to list).
C6_RoundTrip ==
    (last.op = "load" /\ last.reload)
        => /\ storyData # Null
           /\ error = ""
           /\ Equivalent(storyData, last.pre)

\* an exported story has just been loaded again that held its chapters in
\* another order than the export wrote them, with a group comment and after a
\* change of the container
C6_Witness ==
    /\ last.op = "load" /\ last.reload
    /\ storyData # Null
    /\ storyData.chapters # last.pre.chapters
    /\ steps >= 1
    /\ \E c \in Range(AllComments(last.pre.chapters)) :
            c.type = "group" /\ c.groupId # 0 /\ c.appliesToSentenceNumbers.some

\* the comments of each sentence that do not carry group id g
Outside(ss, g) == [i \in 1..Len(ss) |-> SelectSeq(ss[i].comments, LAMBDA c : c.groupId # g)]

\* nothing but comments of group g changed, and no sentence outside H changed
OnlyGroupTouched(g, H) ==
    /\ Outside(PostS, g) = Outside(PreS, g)
    /\ \A i \in 1..Len(PreS) \ H : PostS[i] = PreS[i]

Exported == IF last.simple THEN last.out ELSE last.out.Analysis.items

\* a comment of the sentence with the greatest timestamp
IsLatest(c, comments) ==
    c \in Range(comments) /\ \A d \in Range(comments) : d.timestamp <= c.timestamp

\* the entry the last export wrote for the sentence
ExportedFor(s) ==
    CHOOSE e \in Range(Exported) :
        e.Sentence = s.Sentence /\ e.SentenceNumber = RawNum(s.SentenceNumber)

\* the entry has the comment field and it is the text of a latest comment
HasLatestText(e, comments) ==
    /\ e.comment.present
    /\ \E c \in Range(comments) : IsLatest(c, comments) /\ e.comment.s = c.text

\* the entry has the comment field exactly if the text of some latest comment
\* is not empty, and the field is that text
HasLatestTextUnlessEmpty(e, comments) ==
    \E c \in Range(comments) :
        /\ IsLatest(c, comments)
        /\ IF c.text = <<>> THEN ~e.comment.present
           ELSE e.comment.present /\ e.comment.s = c.text

\* every sentence has its entry in the file the last export wrote
AllExported ==
    /\ Len(Exported) = Len(PostS)
    /\ \A i \in 1..Len(PostS) :
            \E e \in Range(Exported) :
                e.Sentence = PostS[i].Sentence
                    /\ e.SentenceNumber = RawNum(PostS[i].SentenceNumber)

\* C8 as stated: in a simple and in a full export, the legacy comment field of
\* a sentence with comments is the text of one of its comments with the
\* greatest timestamp, and a sentence without comments has no comment field.
C8_AsStated ==
    last.op = "export"
        => /\ AllExported
           /\ \A i \in 1..Len(PostS) :
                IF PostS[i].comments = <<>>
                THEN ~ExportedFor(PostS[i]).comment.present
                ELSE HasLatestText(ExportedFor(PostS[i]), PostS[i].comments)

\* C8 (amended): in a simple and in a full export, every sentence with
\* comments has a comment c with the greatest timestamp such that the legacy
\* comment field is the text of c if that text is not empty, and is left out
\* if it is empty; a sentence without comments has no comment field.
C8_LegacyComment ==
    last.op = "export"
        => /\ AllExported
           /\ \A i \in 1..Len(PostS) :
                IF PostS[i].comments = <<>>
                THEN ~ExportedFor(PostS[i]).comment.present
                ELSE HasLatestTextUnlessEmpty(ExportedFor(PostS[i]), PostS[i].comments)

\* a simple export has just been written of a story with a sentence without
\* comments, a sentence whose latest comment has the empty text and a sentence
\* whose comments differ in time and text
C8_Witness ==
    /\ last.op = "export" /\ last.simple
    /\ \E i \in 1..Len(PostS) : PostS[i].comments = <<>>
    /\ \E i \in 1..Len(PostS) :
            PostS[i].comments # <<>> /\ ~ExportedFor(PostS[i]).comment.present
    /\ \E i \in 1..Len(PostS) :
            \E c, d \in Range(PostS[i].comments) :
                c.timestamp < d.timestamp /\ c.text # d.text /\ c.text # <<>>

\* the shape the importer requires of a document
WellFormed(doc) ==
    /\ doc.Analysis.kind = "array"
    /\ doc.Story.present
    /\ doc.Story.Title # ""
    /\ \A i \in 1..Len(doc.Analysis.items) :
            /\ doc.Analysis.items[i].ChapterNumber.t = "number"
            /\ doc.Analysis.items[i].SentenceNumber.t = "number"
            /\ doc.Analysis.items[i].Sentence # ""

\* C9: after the load of a document that is not well formed (the analysis not
\* an array, the title missing, an entry without numeric chapter or sentence
\* number or without text) no story is held, the one held before included,
\* and an error is shown.
C9_InvalidImport ==
    (last.op = "load" /\ ~WellFormed(last.doc))
        => /\ storyData = Null
           /\ originalCompleteStory = Null
           /\ imported = Null
           /\ error # ""

\* a document whose second entry is invalid has just been loaded over a story
C9_Witness ==
    /\ last.op = "load" /\ ~WellFormed(last.doc)
    /\ last.hadStory
    /\ BasicValidation(last.doc)
    /\ Len(last.doc.Analysis.items) = 2
    /\ WellFormed([last.doc EXCEPT !.Analysis.items = SubSeq(@, 1, 1)])

\* C10 as stated: a single add leaves the comment list of the selected
\* sentence extended at its end by one new comment of kind single, with a
\* fresh id, the time of the operation and no group id; the other sentences'
\* lists are as before and the container holds one comment more.
C10_SingleAdd ==
    (last.op = "add" /\ last.done /\ last.mode = "single" /\ last.sel # Null)
        => /\ Len(AllComments(storyData.chapters))
                  = Len(AllComments(last.pre.chapters)) + 1
           /\ \E i \in 1..Len(PreS) :
                /\ PreS[i].id = last.sel.id
                /\ \A j \in 1..Len(PreS) \ {i} : PostS[j].comments = PreS[j].comments
                /\ \E c \in Range(PostS[i].comments) :
                      /\ PostS[i].comments = Append(PreS[i].comments, c)
                      /\ c.type = "single"
                      /\ c.id \notin PreIds
                      /\ c.timestamp = last.now
                      /\ c.groupId = 0

\* C11: an add or an edit whose text is empty after trimming leaves the story
\* container, the selected sentence, the bulk selection and the modal's open
\* state as they were.
C11_BlankText ==
    (last.op \in {"add", "edit"} /\ Trim(last.text) = <<>>)
        => /\ storyData = last.pre
           /\ selectedAnalysisItem = last.sel
           /\ bulkSelectedSentenceIds = last.bulk
           /\ isModalOpen = last.open

\* a blank text has just been saved over a comment of a story, or as a new
\* annotation for a bulk selection
C11_Witness ==
    /\ last.op \in {"add", "edit"} /\ Trim(last.text) = <<>>
    /\ last.text # <<>>
    /\ storyData # Null
    /\ \/ last.op = "edit" /\ last.sel # Null /\ last.sel.comments # <<>>
       \/ last.op = "add" /\ last.bulk # {}

\* what a caller of the save handler can tell a refusal by: a message is
\* shown that was not there, or the modal is left open as it is for a blank
\* text (a save that succeeds closes the modal and shows nothing)
Surfaced == error # last.err \/ isModalOpen

\* C12 as stated: a bulk add (mass or group mode) with a text that is not
\* blank and an empty target set leaves the container as it was and is told
\* apart from an add that succeeded.
C12_EmptyBulk ==
    (/\ last.op = "add" /\ last.pre # Null /\ Trim(last.text) # <<>>
     /\ last.mode \in {"mass", "group"}
     /\ last.bulk = {})
        => /\ storyData = last.pre
           /\ Surfaced

\* the last operation was an edit, past the blank-text guard, of a comment id
\* no comment carried and, for a group edit, of a group id no comment carried
EditOfUnknown ==
    /\ last.op = "edit" /\ last.done
    /\ \A c \in Range(AllComments(last.pre.chapters)) :
            /\ c.id # last.detail.id
            /\ last.detail.groupId # 0 => c.groupId # last.detail.groupId

\* C13 as stated: an edit aimed at a comment id (and, for a group edit, a
\* group id) that no comment carries fails and signals it: the container is
\* as before and the caller is told, the edit does not pass for a success.
C13_EditNotFound ==
    EditOfUnknown => (storyData = last.pre /\ Surfaced)

\* the position in PreS of the sentence a delete names (0 when there is none)
DeleteAt ==
    LET S == {i \in 1..Len(PreS) : PreS[i].id = last.itemId}
    IN  IF S = {} THEN 0 ELSE CHOOSE i \in S : \A j \in S : i <= j

\* the position, in the named sentence's list, of the comment a delete names
DeleteIndex ==
    LET cs == PreS[DeleteAt].comments
        C == {j \in 1..Len(cs) : cs[j].id = last.commentId}
    IN  IF C = {} THEN 0 ELSE CHOOSE j \in C : \A k \in C : j <= k

\* the sequence without its k-th element
Without(q, k) == [j \in 1..(Len(q) - 1) |-> IF j < k THEN q[j] ELSE q[j + 1]]

\* the last operation was a delete naming a sentence of the story and a
\* comment id that is either not on that sentence or of a comment not of kind
\* group
NonGroupDelete ==
    /\ last.op = "delete" /\ last.done /\ DeleteAt # 0
    /\ DeleteIndex # 0 => PreS[DeleteAt].comments[DeleteIndex].type # "group"

\* what C14 asks of a non-group delete: the named comment alone is gone from
\* the named sentence, the others are there in the order they had, no other
\* sentence changed; with the id not on the sentence the container is as
\* before; no error is raised
OnlyThatCommentGone ==
    /\ Len(PostS) = Len(PreS)
    /\ \A i \in 1..Len(PreS) : i # DeleteAt => PostS[i] = PreS[i]
    /\ PostS[DeleteAt] =
            [PreS[DeleteAt] EXCEPT !.comments =
                IF DeleteIndex = 0 THEN @ ELSE Without(@, DeleteIndex)]
    /\ DeleteIndex = 0 => storyData = last.pre
    /\ error = last.err

\* C14 as stated: deleting a comment that is not of kind group, named by
\* sentence id and comment id, removes exactly that comment from that
\* sentence and leaves the sentence's other comments in their order; with the
\* id not on the sentence the container is unchanged and no error is raised.
C14_AsStated ==
    NonGroupDelete => OnlyThatCommentGone

\* the comments of the sentence carry pairwise distinct ids
DistinctIds(comments) ==
    \A i, j \in 1..Len(comments) : i # j => comments[i].id # comments[j].id

\* C14, amended: the same, for a sentence whose comments carry pairwise
\* distinct ids (an imported history may repeat an id, and the delete removes
\* every comment of the sentence with the id it is given).
C14_SingleDelete ==
    (NonGroupDelete /\ DistinctIds(PreS[DeleteAt].comments)) => OnlyThatCommentGone

\* a non-group comment was deleted from a sentence that held others as well
C14_Witness ==
    /\ NonGroupDelete /\ DistinctIds(PreS[DeleteAt].comments)
    /\ DeleteIndex # 0
    /\ Len(PreS[DeleteAt].comments) >= 2
    /\ Len(PostS[DeleteAt].comments) = Len(PreS[DeleteAt].comments) - 1

\* the places <<sentence, index>> in PreS of the single-kind comments the last
\* edit named (by id, with the group id the comment carries)
SingleEditTargets ==
    {t \in UNION {{<<i, j>> : j \in 1..Len(PreS[i].comments)} : i \in 1..Len(PreS)} :
        LET c == PreS[t[1]].comments[t[2]]
        IN  c.id = last.detail.id /\ c.type = "single"
                /\ c.groupId = last.detail.groupId}

\* PreS with the text and the timestamp of the comment at place t replaced
Retexted(t) ==
    [PreS EXCEPT ![t[1]].comments[t[2]] =
        [@ EXCEPT !.text = Trim(last.text), !.timestamp = last.now]]

\* C15 as stated: editing a single-kind comment by id replaces the text and
\* refreshes the timestamp of that one comment; its id, its kind and its
\* position in the sentence's list stay, and every other comment of the
\* container stays as it was.
C15_SingleEdit ==
    (last.op = "edit" /\ last.done /\ SingleEditTargets # {})
        => \E t \in SingleEditTargets : PostS = Retexted(t)

\* the entries are in ascending order of sentence number and, in a full
\* export, of chapter number first
EntriesAscending(es, isSimple) ==
    \A i, j \in 1..Len(es) :
        i < j =>
            IF isSimple
            THEN es[i].SentenceNumber.v <= es[j].SentenceNumber.v
            ELSE \/ es[i].ChapterNumber.v < es[j].ChapterNumber.v
                 \/ /\ es[i].ChapterNumber.v = es[j].ChapterNumber.v
                    /\ es[i].SentenceNumber.v <= es[j].SentenceNumber.v

\* the entry is the one of the sentence: its text, its sentence number and,
\* in a full export, its chapter number
EntryOf(e, s, isSimple) ==
    /\ e.Sentence = s.Sentence
    /\ e.SentenceNumber = RawNum(s.SentenceNumber)
    /\ isSimple \/ e.ChapterNumber = RawNum(s.ChapterNumber)

\* as many entries as sentences, and for every sentence as many entries of it
\* as the container holds sentences like it
EachSentenceOnce(es, ss, isSimple) ==
    /\ Len(es) = Len(ss)
    /\ \A i \in 1..Len(ss) :
            Cardinality({k \in 1..Len(es) : EntryOf(es[k], ss[i], isSimple)})
                = Cardinality({k \in 1..Len(ss) :
                        /\ ss[k].Sentence = ss[i].Sentence
                        /\ ss[k].SentenceNumber = ss[i].SentenceNumber
                        /\ isSimple \/ ss[k].ChapterNumber = ss[i].ChapterNumber})

\* C16: the entries of a full export are in ascending order of chapter number
\* and, within a chapter, of sentence number; those of a simple export in
\* ascending order of sentence number whatever the chapter; every sentence of
\* the container has exactly one entry in either export.
C16_ExportOrder ==
    last.op = "export"
        => /\ EntriesAscending(Exported, last.simple)
           /\ EachSentenceOnce(Exported, PostS, last.simple)

\* an export of a story whose chapters map holds the sentences in another
\* order than the one the export has to give them
C16_Witness ==
    /\ last.op = "export"
    /\ Len(PostS) >= 2
    /\ \E i \in 1..(Len(PostS) - 1) :
            IF last.simple
            THEN PostS[i].SentenceNumber > PostS[i + 1].SentenceNumber
            ELSE PostS[i].ChapterNumber > PostS[i + 1].ChapterNumber

\* the applies-to field of the entry is there exactly if some latest comment
\* is of kind group, and it is then that comment's numbers joined by commas
AppliesIffGroup(e, comments) ==
    IF comments = <<>> THEN ~e.appliesTo.present
    ELSE \E c \in Range(comments) :
            /\ IsLatest(c, comments)
            /\ e.appliesTo.present <=> c.type = "group"
            /\ e.appliesTo.present
                    => /\ c.appliesToSentenceNumbers.some
                       /\ e.appliesTo.s = Join(c.appliesToSentenceNumbers.v)

\* C17 as stated: in either export the `comment applies to sentences` field
\* of a sentence is there if and only if the sentence's most recent comment
\* is of kind group, and it is then that comment's applies-to numbers joined
\* by commas.
C17_AsStated ==
    last.op = "export"
        => /\ AllExported
           /\ \A i \in 1..Len(PostS) :
                    AppliesIffGroup(ExportedFor(PostS[i]), PostS[i].comments)

\* the comment is of kind group and has an applies-to list with a number in it
GroupWithNumbers(c) ==
    /\ c.type = "group"
    /\ c.appliesToSentenceNumbers.some
    /\ c.appliesToSentenceNumbers.v # <<>>

\* the applies-to field of the entry is there exactly if some latest comment
\* is a group comment with a non-empty list, and it is then the joined list
AppliesIffGroupWithNumbers(e, comments) ==
    IF comments = <<>> THEN ~e.appliesTo.present
    ELSE \E c \in Range(comments) :
            /\ IsLatest(c, comments)
            /\ e.appliesTo.present <=> GroupWithNumbers(c)
            /\ e.appliesTo.present
                    => e.appliesTo.s = Join(c.appliesToSentenceNumbers.v)

\* C17, amended: the field is there if and only if the most recent comment is
\* of kind group and has an applies-to list that is not empty; it is then the
\* numbers of that list joined by commas.
C17_AppliesField ==
    last.op = "export"
        => /\ AllExported
           /\ \A i \in 1..Len(PostS) :
                    AppliesIffGroupWithNumbers(ExportedFor(PostS[i]), PostS[i].comments)

\* an export of a story with a sentence whose latest comment is a group
\* comment with numbers, older comments behind it, and the field written
C17_Witness ==
    /\ last.op = "export"
    /\ \E i \in 1..Len(PostS) :
            /\ Len(PostS[i].comments) >= 2
            /\ \E c \in Range(PostS[i].comments) :
                    /\ GroupWithNumbers(c)
                    /\ \A d \in Range(PostS[i].comments) :
                            d # c => d.timestamp < c.timestamp
            /\ ExportedFor(PostS[i]).appliesTo.present
            /\ Len(ExportedFor(PostS[i]).appliesTo.s) >= 3

\* the ids of the comments, in the order of the list
Ids(comments) == [j \in 1..Len(comments) |-> comments[j].id]

\* the story the importer builds from the document last loaded, its comment
\* lists in the order of the document
BuiltFromLast ==
    {Built[last.doc, p[1], p[2]].story :
        p \in {q \in ImportTimes \X BOOLEAN : Built[last.doc, q[1], q[2]].ok}}

\* C18 as stated: every sentence's comment list is in insertion order in
\* every state, displayed or not: after an import the comments are in the
\* order of the document; an add puts the new comment behind the ones that
\* were there; an edit keeps the order of the list; a delete keeps the order
\* of the comments that remain; and the all_comments array of a full export
\* lists the comments in that order.
C18_InsertionOrder ==
    /\ (last.op = "load" /\ ~last.reload /\ storyData # Null)
            => \E b \in BuiltFromLast :
                    \A i \in 1..Len(PostS) :
                        Ids(PostS[i].comments) = Ids(Flatten(b.chapters)[i].comments)
    /\ (last.op = "add" /\ last.done)
            => \A i \in 1..Len(PreS) :
                    \E k \in 0..Len(PostS[i].comments) :
                        /\ SubSeq(PostS[i].comments, 1, k) = PreS[i].comments
                        /\ \A j \in (k + 1)..Len(PostS[i].comments) :
                                PostS[i].comments[j].id \notin PreIds
    /\ (last.op = "edit" /\ last.done)
            => \A i \in 1..Len(PreS) :
                    Ids(PostS[i].comments) = Ids(PreS[i].comments)
    /\ (last.op = "delete" /\ last.done)
            => \A i \in 1..Len(PreS) :
                    PostS[i].comments
                        = SelectSeq(PreS[i].comments,
                                    LAMBDA c : c \in Range(PostS[i].comments))
    /\ (last.op = "export" /\ ~last.simple)
            => \A i \in 1..Len(PostS) :
                    ExportedFor(PostS[i]).all_comments = History(PostS[i].comments)

\* the sentence records without their comment lists, chapter by chapter
Skeleton(chs) ==
    [i \in 1..Len(chs) |->
        [num |-> chs[i].num,
         sentences |-> [j \in 1..Len(chs[i].sentences) |->
                            [chs[i].sentences[j] EXCEPT !.comments = <<>>]]]]

\* in every chapter the sentences are in ascending order of sentence number
SentencesAscending(chs) ==
    \A i \in 1..Len(chs) :
        \A j \in 1..(Len(chs[i].sentences) - 1) :
            chs[i].sentences[j].SentenceNumber <= chs[i].sentences[j + 1].SentenceNumber

\* C19: whatever adds, edits and deletes followed the last import, the story
\* has the sentences of the import, each with its id, text, chapter number,
\* sentence number and additional analysis, in every chapter in ascending
\* order of sentence number, the title of the import and the complete-story
\* block of the import; a full export writes that block.
C19_OnlyComments ==
    (storyData # Null /\ imported # Null)
        => /\ Skeleton(storyData.chapters) = Skeleton(imported.chapters)
           /\ SentencesAscending(storyData.chapters)
           /\ storyData.title = imported.title
           /\ originalCompleteStory = imported.original
           /\ (last.op = "export" /\ ~last.simple)
                    => /\ last.out.Story.Title = imported.original.Title
                       /\ last.out.Story.Chapters = imported.original.Chapters

\* an add, an edit or a delete has changed the comments of a story whose
\* sentences carry additional analysis and lie in more than one chapter
C19_Witness ==
    /\ storyData # Null /\ imported # Null
    /\ last.op \in {"add", "edit", "delete"} /\ last.done
    /\ storyData # last.pre
    /\ steps = MaxOps
    /\ Len(storyData.chapters) >= 2
    /\ \E i \in 1..Len(PostS) : PostS[i].additionalAnalysis # <<>>

\* the token is an integer: an optional sign and digits, white space around
IsIntegerToken(tok) ==
    LET t == Trim(tok)
        d == IF t # <<>> /\ Head(t) \in {"-", "+"} THEN Tail(t) ELSE t
    IN  d # <<>> /\ \A i \in 1..Len(d) : IsDigit(d[i])

\* the integers of a comma-separated list, the other tokens dropped
IntegersOf(raw) ==
    LET toks == SelectSeq(Split(raw), IsIntegerToken)
    IN  [i \in 1..Len(toks) |-> ParseInt(toks[i]).v]

\* the entry has no comment history but a legacy comment string
IsLegacyEntry(raw) == ~raw.all_comments.present /\ raw.comment.present

\* the sentence built from the entry holds the one comment C20 describes
OneLegacyComment(raw, s) ==
    /\ Len(s.comments) = 1
    /\ s.comments[1].text = raw.comment.s
    /\ s.comments[1].type = "group" <=> raw.appliesTo.present
    /\ raw.appliesTo.present
            => /\ s.comments[1].appliesToSentenceNumbers
                    = SomeApplies(IntegersOf(raw.appliesTo.s))
               /\ s.comments[1].groupId # 0

\* no two comments of the container carry the same group id
GroupIdsApart(chs) ==
    LET all == AllComments(chs)
    IN  \A i, j \in 1..Len(all) :
            (i # j /\ all[i].groupId # 0) => all[i].groupId # all[j].groupId

\* the sentences holding a group comment of the import that the last edit or
\* delete named
ImportedGroupTargets ==
    {i \in 1..Len(PreS) :
        \E c \in Range(PreS[i].comments) :
            /\ c.id = TargetId /\ c.type = "group"
            /\ c \in Range(AllComments(imported.chapters))
            /\ last.op = "delete" => PreS[i].id = last.itemId}

\* C20 as stated: an entry without comment history and with a legacy comment
\* string gives exactly one comment, of kind group if and only if the entry
\* has the legacy applies-to field, its list the integers of the field's
\* comma-separated tokens, the invalid tokens dropped; every such group
\* comment has a fresh group id of its own, so that after a legacy-only import
\* no two comments share a group id, and an edit or delete of one imported
\* group comment changes no other sentence.
C20_LegacyImport ==
    /\ (last.op = "load" /\ ~last.reload /\ storyData # Null)
            => /\ \A k \in 1..Len(last.doc.Analysis.items) :
                    LET raw == last.doc.Analysis.items[k] IN
                    IsLegacyEntry(raw)
                        => \E i \in 1..Len(PostS) :
                                /\ PostS[i].id = SentenceId(raw.ChapterNumber.v,
                                                            raw.SentenceNumber.v)
                                /\ OneLegacyComment(raw, PostS[i])
               /\ LegacyOnly(last.doc) => GroupIdsApart(storyData.chapters)
    /\ (/\ last.op \in {"edit", "delete"} /\ last.done
        /\ imported # Null /\ imported.legacyOnly
        /\ ImportedGroupTargets # {})
            => \E i \in ImportedGroupTargets :
                    \A j \in 1..Len(PreS) : j # i => PostS[j] = PreS[j]

\* the comments of the document's histories, entry by entry
DocComments(doc) ==
    Concat([k \in 1..Len(doc.Analysis.items) |-> doc.Analysis.items[k].all_comments.list])

\* the document has a comment history in which a comment lacks its id or its
\* timestamp
HasGaps(doc) ==
    \E c \in Range(DocComments(doc)) : c.id = 0 \/ c.timestamp = 0

\* the comments built from entry k of the document, in the document's order
BuiltComments(b, raw) ==
    LET ss == Flatten(b.chapters)
        i == FirstIndex(Len(ss), LAMBDA n :
                 ss[n].id = SentenceId(raw.ChapterNumber.v, raw.SentenceNumber.v))
    IN  ss[i].comments

\* every timestamp the import filled in is the one time t
FilledAt(b, doc, t) ==
    \A k \in 1..Len(doc.Analysis.items) :
        LET raw == doc.Analysis.items[k] IN
        \A j \in 1..Len(raw.all_comments.list) :
            raw.all_comments.list[j].timestamp = 0
                => BuiltComments(b, raw)[j].timestamp = t

\* all comments sharing a group id have the same timestamp
GroupTimestampsAgree(cs) ==
    \A c1, c2 \in Range(cs) :
        (c1.groupId # 0 /\ c1.groupId = c2.groupId) => c1.timestamp = c2.timestamp

\* all comments sharing a group id have the same text
GroupTextsAgree(cs) ==
    \A c1, c2 \in Range(cs) :
        (c1.groupId # 0 /\ c1.groupId = c2.groupId) => c1.text = c2.text

\* C21 as stated: right after the import of a document whose comment
\* histories lack an id or a timestamp somewhere, every comment has an id and
\* a timestamp, the timestamps filled in are all the one import time, and the
\* comments sharing a group id have the same timestamp (and the same text
\* when the texts of the document agree).
C21_ImportConsistency ==
    (last.op = "load" /\ ~last.reload /\ storyData # Null /\ HasGaps(last.doc))
        => /\ \A c \in Range(AllComments(storyData.chapters)) :
                    c.id # 0 /\ c.timestamp # 0
           /\ \E b \in BuiltFromLast :
                    /\ RenderChapters(b.chapters) = storyData.chapters
                    /\ \E t \in ImportTimes \cup {n + 1 : n \in ImportTimes} :
                            FilledAt(b, last.doc, t)
           /\ GroupTimestampsAgree(AllComments(storyData.chapters))
           /\ GroupTextsAgree(DocComments(last.doc))
                    => GroupTextsAgree(AllComments(storyData.chapters))

\* the lists holding the comments of the given list in any order
Reorderings(comments) ==
    LET n == Len(comments)
        P == {f \in [1..n -> 1..n] : \A i, j \in 1..n : i # j => f[i] # f[j]}
    IN  {[i \in 1..n |-> comments[f[i]]] : f \in P}

\* C22 as stated: the comment taken as the latest for the legacy fields of an
\* export does not depend on the order of the sentence's list: a sentence
\* holding the same comments in another order would be exported with the
\* same `comment` and `comment applies to sentences` values.
C22_DeterministicLatest ==
    last.op = "export"
        => \A i \in 1..Len(PostS) :
                \A cs \in Reorderings(PostS[i].comments) :
                    LET other == SimpleEntry([PostS[i] EXCEPT !.comments = cs])
                    IN  /\ ExportedFor(PostS[i]).comment = other.comment
                        /\ ExportedFor(PostS[i]).appliesTo = other.appliesTo

\* the comment has a group id exactly if it is of kind group
KindAgrees(c) == c.groupId # 0 <=> c.type = "group"

\* the edit of the comment goes the group way: editingCommentDetail.groupId
EditsAsGroup(c) == c.groupId # 0

\* the delete of the comment goes the group way: type 'group' and a group id
DeletesAsGroup(c) == c.type = "group" /\ c.groupId # 0

\* kind and group id agree on every comment, and edit and delete take the
\* same comments for group comments
KindAndGroupAgree(chs) ==
    \A c \in Range(AllComments(chs)) :
        /\ KindAgrees(c)
        /\ EditsAsGroup(c) <=> DeletesAsGroup(c)
        /\ EditsAsGroup(c) <=> c.type = "group"

C24_Cancellation ==
    [][/\ modalLog'.event = "close" =>
            /\ storyData' = storyData
            /\ originalCompleteStory' = originalCompleteStory
       /\ ~isModalOpen /\ isModalOpen' =>
            /\ newCommentText' = <<>>
            /\ editingCommentDetail' = Null]_vars

\* the modal is open again after a close that left a draft and an edit target
C24_Witness ==
    /\ isModalOpen
    /\ modalLog.event \in {"select", "bulk"}
    /\ modalLog.closedWith # <<>>
    /\ modalLog.closedEditing
    /\ storyData # Null
    /\ newCommentText = <<>>

\* the draft with a transcript appended, as onresult appends it
Appended(text) == IF text # <<>> THEN text \o <<" ">> \o Transcript ELSE Transcript

\* a speech callback leaves the container and everything of the App alone,
\* and of the modal changes at most the draft (by appending the transcript),
\* the recording flag and the speech error
CallbackIsolated ==
    /\ UNCHANGED <<storyData, originalCompleteStory, selectedAnalysisItem,
                   isModalOpen, error, editMode, bulkSelectedSentenceIds>>
    /\ editingCommentDetail' = editingCommentDetail
    /\ newCommentText' \in {newCommentText, Appended(newCommentText)}

\* C25  Dictation is isolated from the container under every interleaving of
\* the speech callbacks (result, error, end) with open/close, save, delete and
\* import: a callback only appends the transcript to the draft or updates the
\* recording and error flags, never changes the container, and a transcript
\* of a recognition started in one open period of the modal is never appended
\* to the draft of a later one.
C25_DictationIsolated ==
    [][/\ modalLog'.event \in {"result", "error", "end"} => CallbackIsolated
       /\ modalLog'.event = "result" /\ isModalOpen =>
                modalLog.startedIn = modalLog.session]_vars

\* C29  No comment is saved or updated while recording is in progress: from a
\* state where isRecording holds, no user action of the modal (the Save
\* button, Ctrl/Cmd+Enter) commits the draft to the container.
C29_NoSaveWhileRecording ==
    [][isRecording =>
            ~(/\ modalLog'.event \in {"save", "shortcut"}
              /\ storyData' # storyData)]_vars

\* the last operation was an import that failed: the file could not be read
\* or parsed, or the document is not well formed (at the top level or in one
\* of its entries)
FailedImport ==
    \/ last.op = "unreadable"
    \/ last.op = "load" /\ ~WellFormed(last.doc)

\* C26  After any failed import (file unreadable or not JSON, top-level
\* validation failure, per-entry validation failure) the container and the
\* retained story block are both null and an error is set, also when a valid
\* story was loaded before; and in every reachable state the container is
\* null exactly when the retained block is null.
C26_FailedImport ==
    /\ (storyData = Null) <=> (originalCompleteStory = Null)
    /\ FailedImport => /\ storyData = Null
                       /\ originalCompleteStory = Null
                       /\ error # ""

\* a file that could not be parsed has just been dropped on a loaded story
C26_Witness ==
    /\ last.op = "unreadable"
    /\ last.hadStory
    /\ storyData = Null

\* the ids of the sentences of the current story
SentenceIds == {s.id : s \in Displayed}

\* the modal has something of the current story to annotate
HasTarget ==
    \/ /\ editMode = "single"
       /\ selectedAnalysisItem # Null
       /\ selectedAnalysisItem.id \in SentenceIds
    \/ /\ editMode \in {"mass", "group"}
       /\ bulkSelectedSentenceIds # {}
       /\ bulkSelectedSentenceIds \subseteq SentenceIds

\* C27  Whenever the modal is open it has a target in the current story:
\* the mode is single and a sentence of the current story is selected, or the
\* mode is mass or group and the bulk selection is non-empty and holds only
\* ids of sentences of the current story.
C27_ModalHasTarget == isModalOpen => HasTarget

\* the selected item shows the comments the container holds for the sentence
\* with its id
SelectedCurrent ==
    LET pl == FindSentence(storyData.chapters, selectedAnalysisItem.id)
    IN  /\ pl[1] # 0
        /\ storyData.chapters[pl[1]].sentences[pl[2]].comments
                = selectedAnalysisItem.comments

\* C28  The selected item is never stale: in every state with a story loaded
\* and a sentence selected, the comment list of the selected item equals that
\* of the container's sentence with the same id (after every add, single or
\* group edit, also as a sibling, and single or group delete).
C28_SelectedNeverStale ==
    (storyData # Null /\ selectedAnalysisItem # Null) => SelectedCurrent

\* a group edit has just rewritten the comments of the selected sentence
C28_Witness ==
    /\ last.op = "edit" /\ last.done
    /\ last.detail.groupId # 0
    /\ storyData # Null
    /\ selectedAnalysisItem # Null
    /\ last.sel # Null
    /\ selectedAnalysisItem.comments # last.sel.comments
    /\ SelectedCurrent

\* the places <<sentence, position>> of the comments that the last operation
\* rewrote or removed: those of the container before it that the sentence no
\* longer holds as they were
Affected ==
    {t \in UNION {{<<i, j>> : j \in 1..Len(PreS[i].comments)} : i \in 1..Len(PreS)} :
        PreS[t[1]].comments[t[2]] \notin Range(PostS[t[1]].comments)}

\* the last operation was an edit or a delete by id that did not take the
\* group branch
ByIdNotGroup ==
    \/ last.op = "edit" /\ last.done /\ last.detail.groupId = 0
    \/ NonGroupDelete

\* C30  Comment ids are unique: after the import of a story whose comment
\* ids are pairwise distinct (missing ones filled with fresh ids), and after
\* every sequence of single, mass and group adds, edits and deletes, all
\* comment ids of the container are pairwise distinct, so an edit or a delete
\* by id affects at most one non-group comment.
C30_UniqueIds ==
    (storyData # Null /\ imported # Null /\ UniqueCommentIds(imported.chapters))
        => /\ UniqueCommentIds(storyData.chapters)
           /\ ByIdNotGroup => Cardinality(Affected) <= 1

\* a bulk add has put new comments on two sentences of a story imported with
\* distinct ids, some of them filled in by the import
C30_Witness ==
    /\ last.op = "add" /\ last.done
    /\ last.mode \in {"mass", "group"}
    /\ Cardinality(last.bulk) = 2
    /\ imported # Null
    /\ storyData # Null
    /\ UniqueCommentIds(imported.chapters)
    /\ AllComments(imported.chapters) # <<>>
    /\ Len(AllComments(storyData.chapters)) = Len(AllComments(last.pre.chapters)) + 2

====
